---- MODULE Spec2Model ----
(***************************************************************************)
(* Positions book of audaces-perps: paged slot allocator (page.rs),        *)
(* address space and garbage list (memory.rs), node views (tree_nodes.rs)  *)
(* and the two critbit trees (positions_book_tree.rs), driven by the       *)
(* processors that call them (processor/*.rs).                             *)
(*                                                                         *)
(* Page buffers are modelled byte for byte.  A u64 is modelled as a word   *)
(* of U64_BITS bits stored little-endian in its 8-byte field; u64          *)
(* arithmetic is taken modulo 2^U64_BITS.                                  *)
(***************************************************************************)
EXTENDS Integers, Sequences, FiniteSets, Bags, TLC

\* ------------------------------------------------------------------ bounds
NumPages == 2
PageSize == 4
U64_BITS == 4
MaxPositions == 3
MaxBuild == 4
MaxSlot == 1
MaxIterations == 3
MaxFailedAllocs == 2
MaxCalls == 5
MaxFrees == 4

\* ------------------------------------------------------- program constants
SLOT_SIZE == 47
TAG_SIZE == 1
PAGE_SHIFT == 28

FreeSlot == 0
LastFreeSlot == 1
InnerNode == 2
LeafNode == 3

\* InnerNodeSchema
IN_Critbit == 1
IN_LiquidationIndexMin == 2
IN_LeftPointer == 10
IN_RightPointer == 14
IN_Collateral == 22
IN_VCoin == 30
IN_VPc == 38
IN_CalculationFlag == 46

\* LeafNodeSchema
LF_LiquidationIndex == 1
LF_SlotNumber == 9
LF_Collateral == 17
LF_VCoin == 25
LF_VPc == 33

\* GarbageNodeSchema
GN_IsLastToCollect == IN_RightPointer + 4
GN_PointerToNext == GN_IsLastToCollect + 1

\* Option<Pointer>::None
None == -1

Short == "Short"
Long == "Long"
PositionType == {Short, Long}

\* ------------------------------------------------------------ u64 words
U64_MOD == 2 ^ U64_BITS
U64_MAX == U64_MOD - 1

Bit(x, i) == (x \div (2 ^ i)) % 2
BitAnd(x, y) == LET RECURSIVE f(_)
                    f(i) == IF i < 0 THEN 0
                            ELSE Bit(x, i) * Bit(y, i) * (2 ^ i) + f(i - 1)
                IN f(U64_BITS - 1)
BitOr(x, y) == x + y - BitAnd(x, y)
BitXor(x, y) == x + y - 2 * BitAnd(x, y)
BitNot(x) == U64_MAX - x
Shl(x, n) == (x * (2 ^ n)) % U64_MOD
WrappingAdd(x, y) == (x + y) % U64_MOD
WrappingSub(x, y) == (x - y + U64_MOD) % U64_MOD
AddOverflows(x, y) == x + y > U64_MAX
SubOverflows(x, y) == x < y

\* ------------------------------------------------------------ byte buffers
ToLeBytes4(v) == << v % 256, (v \div 256) % 256, (v \div 65536) % 256,
                    (v \div 16777216) % 256 >>
ToLeBytes8(v) == ToLeBytes4(v) \o << 0, 0, 0, 0 >>
FromLeBytes4(d, o) == d[o + 1] + 256 * d[o + 2] + 65536 * d[o + 3]
                        + 16777216 * d[o + 4]
FromLeBytes8(d, o) ==
    FromLeBytes4(d, o)
      + (IF d[o + 5] = 0 /\ d[o + 6] = 0 /\ d[o + 7] = 0 /\ d[o + 8] = 0
         THEN 0 ELSE 16777216 * 256 * (d[o + 5] + d[o + 6] + d[o + 7] + d[o + 8]))
CopyFromSlice(d, o, bytes) ==
    LET RECURSIVE f(_, _)
        f(acc, i) == IF i > Len(bytes) THEN acc
                     ELSE f([acc EXCEPT ![o + i] = bytes[i]], i + 1)
    IN f(d, 1)

\* Let(v, LAMBDA x : e) is e with x naming the value v, computed once.
Let(v, F(_)) == F(v)

\* ------------------------------------------------------------------- Page
\* A page is [page_size, data, uninitialized_memory, free_slot_list_hd];
\* pointers here are page-local slot indices.
\* A slot offset that packs the slots one byte closer.
SlotOffset_Packed(pointer) == TAG_SIZE + pointer * (SLOT_SIZE - 1)

SlotOffset(pointer) == TAG_SIZE + pointer * SLOT_SIZE

NewPage(n) == [page_size |-> n,
               data |-> [i \in 1..(TAG_SIZE + n * SLOT_SIZE) |-> 0],
               uninitialized_memory |-> 0,
               free_slot_list_hd |-> None]

\* A free that always links the slot to the old head, empty list or not.
Page_free_AlwaysLinks(p, pointer) ==
    LET offset == SlotOffset(pointer)
        hd == IF p.free_slot_list_hd # None THEN p.free_slot_list_hd ELSE 0
        d1 == CopyFromSlice(p.data, offset + 1, ToLeBytes4(hd))
    IN [page |-> [p EXCEPT !.data = [d1 EXCEPT ![offset + 1] = FreeSlot],
                           !.free_slot_list_hd = pointer],
        err |-> "Ok"]

Page_free(p, pointer) ==
    LET offset == SlotOffset(pointer)
        hd == p.free_slot_list_hd
    IN  IF hd # None /\ offset + 5 > Len(p.data)
        THEN [page |-> p, err |-> "MemoryError"]
        ELSE IF offset >= Len(p.data)
        THEN [page |-> p, err |-> "Panic"]
        ELSE LET d1 == IF hd # None
                       THEN CopyFromSlice(p.data, offset + 1, ToLeBytes4(hd))
                       ELSE p.data
                 tag == IF hd # None THEN FreeSlot ELSE LastFreeSlot
             IN [page |-> [p EXCEPT !.data = [d1 EXCEPT ![offset + 1] = tag],
                                    !.free_slot_list_hd = pointer],
                 err |-> "Ok"]

\* An allocate that hands out the head of the free list and leaves it the head.
Page_allocate_KeepsHead(p, slot_type) ==
    IF p.free_slot_list_hd # None
    THEN [page |-> [p EXCEPT !.data[SlotOffset(p.free_slot_list_hd) + 1] = slot_type],
          err |-> "Ok", pointer |-> p.free_slot_list_hd]
    ELSE IF p.uninitialized_memory + 1 > p.page_size
    THEN [page |-> [p EXCEPT !.uninitialized_memory = @ + 1],
          err |-> "OutOfSpace", pointer |-> None]
    ELSE [page |-> [p EXCEPT !.uninitialized_memory = @ + 1,
                             !.data[SlotOffset(p.uninitialized_memory) + 1] = slot_type],
          err |-> "Ok", pointer |-> p.uninitialized_memory]

Page_allocate(p, slot_type) ==
    IF p.free_slot_list_hd # None
    THEN LET pt == p.free_slot_list_hd
             offset == SlotOffset(pt)
         IN  IF offset >= Len(p.data)
             THEN [page |-> p, err |-> "Panic", pointer |-> None]
             ELSE LET tag == p.data[offset + 1]
                  IN  IF tag = FreeSlot /\ offset + 5 > Len(p.data)
                      THEN [page |-> p, err |-> "Panic", pointer |-> None]
                      ELSE IF tag \notin {FreeSlot, LastFreeSlot}
                      THEN [page |-> p, err |-> "Panic", pointer |-> None]
                      ELSE LET hd == IF tag = FreeSlot
                                     THEN FromLeBytes4(p.data, offset + 1)
                                     ELSE None
                           IN [page |-> [p EXCEPT
                                   !.free_slot_list_hd = hd,
                                   !.data = [p.data EXCEPT ![offset + 1] = slot_type]],
                               err |-> "Ok", pointer |-> pt]
    ELSE LET pointer == p.uninitialized_memory
             offset == SlotOffset(pointer)
             p1 == [p EXCEPT !.uninitialized_memory = pointer + 1]
         IN  IF p1.uninitialized_memory > p.page_size
             THEN [page |-> p1, err |-> "OutOfSpace", pointer |-> None]
             ELSE IF offset >= Len(p.data)
             THEN [page |-> p1, err |-> "Panic", pointer |-> None]
             ELSE [page |-> [p1 EXCEPT !.data = [p.data EXCEPT ![offset + 1] = slot_type]],
                   err |-> "Ok", pointer |-> pointer]

Page_read_byte(p, pointer, offset) ==
    p.data[SlotOffset(pointer) + offset + 1]
Page_read_u32_le(p, pointer, offset) ==
    FromLeBytes4(p.data, SlotOffset(pointer) + offset)
Page_read_u64_le(p, pointer, offset) ==
    FromLeBytes8(p.data, SlotOffset(pointer) + offset)
Page_write(p, pointer, offset, input) ==
    [p EXCEPT !.data = CopyFromSlice(p.data, SlotOffset(pointer) + offset, input)]

\* ----------------------------------------------------------------- Memory
\* A book is [pages, gc_list_hd, shorts_root, longs_root, flagged]:
\* How the byte range of a typed access ends: read, read_byte, read_u64_le,
\* read_u32_le and write all index self.data with
\* [mem_offset .. mem_offset + length], and a slice index whose end lies
\* beyond the buffer panics.
Page_access(p, pointer, offset, length) ==
    IF SlotOffset(pointer) + offset + length <= Len(p.data)
    THEN "Ok" ELSE "Panic"

\* PositionsBook with its Memory flattened in, plus the history of every
\* pointer that flag_for_gc was ever given.  Pointers here carry the page index in the bits
\* above PAGE_SHIFT.
PageIndex(pointer) == pointer \div (2 ^ PAGE_SHIFT)
PageLocal(pointer) == pointer % (2 ^ PAGE_SHIFT)

\* The slot of the pointer lies inside an existing page buffer: every field
\* access of the slot succeeds, any access outside panics (slice indexing).
PtrOk(b, pointer) ==
    /\ pointer >= 0
    /\ PageIndex(pointer) < Len(b.pages)
    /\ SlotOffset(PageLocal(pointer)) + SLOT_SIZE
          <= Len(b.pages[PageIndex(pointer) + 1].data)

read_byte(b, pointer, offset) ==
    Page_read_byte(b.pages[PageIndex(pointer) + 1], PageLocal(pointer), offset)
read_u32_le(b, pointer, offset) ==
    Page_read_u32_le(b.pages[PageIndex(pointer) + 1], PageLocal(pointer), offset)
read_u64_le(b, pointer, offset) ==
    Page_read_u64_le(b.pages[PageIndex(pointer) + 1], PageLocal(pointer), offset)
write(b, pointer, offset, input) ==
    [b EXCEPT !.pages[PageIndex(pointer) + 1] =
                  Page_write(@, PageLocal(pointer), offset, input)]

\* The same through Memory, which first indexes self.pages with the page
\* index of the pointer.
Memory_access(b, pointer, offset, length) ==
    IF PageIndex(pointer) >= Len(b.pages) THEN "Panic"
    ELSE Page_access(b.pages[PageIndex(pointer) + 1], PageLocal(pointer),
                     offset, length)

Memory_free(b, pointer) ==
    IF PageIndex(pointer) >= Len(b.pages)
    THEN [book |-> b, err |-> "Panic"]
    ELSE Let(Page_free(b.pages[PageIndex(pointer) + 1], PageLocal(pointer)),
             LAMBDA r :
             [book |-> [b EXCEPT !.pages[PageIndex(pointer) + 1] = r.page],
              err |-> r.err])

\* An allocate that scans the pages from the last one down.
Memory_allocate_FromLastPage(b, slot_type) ==
    LET spare == {i \in 1..Len(b.pages) :
                     \/ b.pages[i].page_size # b.pages[i].uninitialized_memory
                     \/ b.pages[i].free_slot_list_hd # None}
    IN  IF spare = {}
        THEN [book |-> b, err |-> "OutOfSpace", pointer |-> None]
        ELSE Let(CHOOSE j \in spare : \A k \in spare : j >= k, LAMBDA i :
             Let(Page_allocate(b.pages[i], slot_type), LAMBDA r :
             [book |-> [b EXCEPT !.pages[i] = r.page],
              err |-> r.err,
              pointer |-> IF r.err = "Ok"
                          THEN (i - 1) * (2 ^ PAGE_SHIFT) + r.pointer
                          ELSE None]))

Memory_allocate(b, slot_type) ==
    LET spare == {i \in 1..Len(b.pages) :
                     \/ b.pages[i].page_size # b.pages[i].uninitialized_memory
                     \/ b.pages[i].free_slot_list_hd # None}
    IN  IF spare = {}
        THEN [book |-> b, err |-> "OutOfSpace", pointer |-> None]
        ELSE Let(CHOOSE j \in spare : \A k \in spare : j <= k, LAMBDA i :
             Let(Page_allocate(b.pages[i], slot_type), LAMBDA r :
             [book |-> [b EXCEPT !.pages[i] = r.page],
              err |-> r.err,
              pointer |-> IF r.err = "Ok"
                          THEN (i - 1) * (2 ^ PAGE_SHIFT) + r.pointer
                          ELSE None]))

\* A flag_for_gc that stores the link to the next entry over the right
\* child pointer.
flag_for_gc_OverRightPointer(b, pointer) ==
    IF ~PtrOk(b, pointer)
    THEN [book |-> b, err |-> "Panic"]
    ELSE LET b1 == IF b.gc_list_hd # None
                   THEN write(write(b, pointer, IN_RightPointer,
                                    ToLeBytes4(b.gc_list_hd)),
                              pointer, GN_IsLastToCollect, << 0 >>)
                   ELSE write(b, pointer, GN_IsLastToCollect, << 1 >>)
         IN [book |-> [b1 EXCEPT !.gc_list_hd = pointer,
                                 !.flagged = @ \cup {pointer}],
             err |-> "Ok"]

flag_for_gc(b, pointer) ==
    IF ~PtrOk(b, pointer)
    THEN [book |-> b, err |-> "Panic"]
    ELSE LET b1 == IF b.gc_list_hd # None
                   THEN write(write(b, pointer, GN_PointerToNext,
                                    ToLeBytes4(b.gc_list_hd)),
                              pointer, GN_IsLastToCollect, << 0 >>)
                   ELSE write(b, pointer, GN_IsLastToCollect, << 1 >>)
         IN [book |-> [b1 EXCEPT !.gc_list_hd = pointer,
                                 !.flagged = @ \cup {pointer}],
             err |-> "Ok"]

RECURSIVE crank_loop(_, _, _)
crank_loop(b, iterations, freed_slots) ==
    IF iterations = 0 \/ b.gc_list_hd = None
    THEN [book |-> b, err |-> "Ok", freed_slots |-> freed_slots]
    ELSE LET pt == b.gc_list_hd
         IN IF ~PtrOk(b, pt)
            THEN [book |-> b, err |-> "Panic", freed_slots |-> freed_slots]
            ELSE
            LET b1 == [b EXCEPT !.gc_list_hd =
                          IF read_byte(b, pt, GN_IsLastToCollect) = 0
                          THEN read_u32_le(b, pt, GN_PointerToNext)
                          ELSE None]
                tag == read_byte(b1, pt, 0)
            IN  IF tag = InnerNode
                THEN LET left_pt == read_u32_le(b1, pt, IN_LeftPointer)
                         right_pt == read_u32_le(b1, pt, IN_RightPointer)
                     IN  Let(flag_for_gc(b1, left_pt), LAMBDA f1 :
                         IF f1.err # "Ok"
                         THEN [book |-> f1.book, err |-> f1.err,
                               freed_slots |-> freed_slots]
                         ELSE
                         Let(flag_for_gc(f1.book, right_pt), LAMBDA f2 :
                         IF f2.err # "Ok"
                         THEN [book |-> f2.book, err |-> f2.err,
                               freed_slots |-> freed_slots]
                         ELSE crank_loop(f2.book, iterations - 1,
                                         freed_slots + 1)))
                ELSE IF tag = LeafNode
                THEN Let(Memory_free(b1, pt), LAMBDA r :
                         IF r.err # "Ok"
                         THEN [book |-> r.book, err |-> r.err,
                               freed_slots |-> freed_slots]
                         ELSE crank_loop(r.book, iterations - 1, freed_slots + 1))
                ELSE [book |-> b1, err |-> "Panic", freed_slots |-> freed_slots]

\* A collector that gives up when the head of the list is an inner node.
crank_garbage_collector_StopsAtInner(b, max_iterations) ==
    IF b.gc_list_hd # None /\ PtrOk(b, b.gc_list_hd)
       /\ read_byte(b, b.gc_list_hd, 0) = InnerNode
    THEN [book |-> b, err |-> "Ok", freed_slots |-> 0]
    ELSE crank_loop(b, max_iterations, 0)

\* A collector that runs one iteration more than it was given.
crank_garbage_collector_OneMore(b, max_iterations) ==
    crank_loop(b, max_iterations + 1, 0)

crank_garbage_collector(b, max_iterations) ==
    crank_loop(b, max_iterations, 0)

\* ------------------------------------------------------------- node views
\* u64 arithmetic that overflows wraps in a build without overflow checks and
\* panics in a build with them.  The operators below compute the wrapping
\* run; Ovf marks a result whose run passed an overflow, which is the run
\* that a build with overflow checks ends in a panic instead.
Ovf(overflows, res) == IF overflows THEN [ovf |-> TRUE] @@ res ELSE res
Trapped(res) == "ovf" \in DOMAIN res /\ res.ovf

\* Amounts travel as triples << collateral, v_coin, v_pc >>.
\* Additions and subtractions that leave one of the three fields alone.
Add3_DropsVCoin(x, y) == << WrappingAdd(x[1], y[1]), x[2],
                            WrappingAdd(x[3], y[3]) >>
Sub3_DropsVPc(x, y) == << WrappingSub(x[1], y[1]), WrappingSub(x[2], y[2]),
                          x[3] >>
Add3(x, y) == << WrappingAdd(x[1], y[1]), WrappingAdd(x[2], y[2]),
                 WrappingAdd(x[3], y[3]) >>
Sub3(x, y) == << WrappingSub(x[1], y[1]), WrappingSub(x[2], y[2]),
                 WrappingSub(x[3], y[3]) >>
Add3Overflows(x, y) == \E i \in 1..3 : AddOverflows(x[i], y[i])
Sub3Overflows(x, y) == \E i \in 1..3 : SubOverflows(x[i], y[i])

get_node(b, pt) ==
    IF ~PtrOk(b, pt) THEN "Panic"
    ELSE LET tag == read_byte(b, pt, 0)
         IN  IF tag = InnerNode THEN "InnerNode"
             ELSE IF tag = LeafNode THEN "Leaf"
             ELSE "Panic"

get_critbit(b, pt) == read_byte(b, pt, IN_Critbit)

\* max = min | ((2u64 << critbit) - 1); the subtraction overflows when the
\* shift has pushed the only set bit out of the word.
get_liquidation_index_min_max(b, pt, critbit) ==
    LET min == read_u64_le(b, pt, IN_LiquidationIndexMin)
    IN [min |-> min,
        max |-> BitOr(min, WrappingSub(Shl(2, critbit), 1)),
        ovf |-> SubOverflows(Shl(2, critbit), 1)]

InnerNode_get(b, pt) == << read_u64_le(b, pt, IN_Collateral),
                           read_u64_le(b, pt, IN_VCoin),
                           read_u64_le(b, pt, IN_VPc) >>
\* Setters that store only part of the triple.
InnerNode_set_DropsVPc(b, pt, x) ==
    write(write(b, pt, IN_Collateral, ToLeBytes8(x[1])),
          pt, IN_VCoin, ToLeBytes8(x[2]))
Leaf_set_DropsVPc(b, pt, x) ==
    write(write(b, pt, LF_Collateral, ToLeBytes8(x[1])),
          pt, LF_VCoin, ToLeBytes8(x[2]))
InnerNode_set(b, pt, x) ==
    write(write(write(b, pt, IN_Collateral, ToLeBytes8(x[1])),
                pt, IN_VCoin, ToLeBytes8(x[2])),
          pt, IN_VPc, ToLeBytes8(x[3]))
Leaf_get(b, pt) == << read_u64_le(b, pt, LF_Collateral),
                      read_u64_le(b, pt, LF_VCoin),
                      read_u64_le(b, pt, LF_VPc) >>
Leaf_set(b, pt, x) ==
    write(write(write(b, pt, LF_Collateral, ToLeBytes8(x[1])),
                pt, LF_VCoin, ToLeBytes8(x[2])),
          pt, LF_VPc, ToLeBytes8(x[3]))
Leaf_get_liquidation_index(b, pt) == read_u64_le(b, pt, LF_LiquidationIndex)
Leaf_get_slot(b, pt) == read_u64_le(b, pt, LF_SlotNumber)

\* Node::get_collateral / get_v_coin / get_v_pc of a node whose kind is known
Node_get(b, pt, kind) ==
    IF kind = "InnerNode" THEN InnerNode_get(b, pt) ELSE Leaf_get(b, pt)

\* Node::free: a leaf goes straight to its page's free list, an inner node
\* goes on the garbage list.
Node_free(b, pt, kind) ==
    IF kind = "InnerNode" THEN flag_for_gc(b, pt) ELSE Memory_free(b, pt)

\* --------------------------------------------------------- positions book
get_root(b, position_type) ==
    IF position_type = Short THEN b.shorts_root ELSE b.longs_root

\* A root setter that writes both roots.
set_root_BothSides(b, pt, position_type) ==
    [b EXCEPT !.longs_root = pt, !.shorts_root = pt]

set_root(b, pt, position_type) ==
    IF position_type = Long THEN [b EXCEPT !.longs_root = pt]
                            ELSE [b EXCEPT !.shorts_root = pt]

\* A walk that takes the right child where the key's bit is 0.
walk_Swapped(b, pt, liquidation_index, critbit) ==
    LET direction == Bit(liquidation_index, critbit) = 0
    IN  IF ~direction
        THEN [direction |-> TRUE, next_offset |-> IN_LeftPointer,
              next_pt |-> read_u32_le(b, pt, IN_LeftPointer),
              sibling_pt |-> read_u32_le(b, pt, IN_RightPointer)]
        ELSE [direction |-> FALSE, next_offset |-> IN_RightPointer,
              next_pt |-> read_u32_le(b, pt, IN_RightPointer),
              sibling_pt |-> read_u32_le(b, pt, IN_LeftPointer)]

walk(b, pt, liquidation_index, critbit) ==
    LET direction == Bit(liquidation_index, critbit) = 0
    IN  IF direction
        THEN [direction |-> TRUE, next_offset |-> IN_LeftPointer,
              next_pt |-> read_u32_le(b, pt, IN_LeftPointer),
              sibling_pt |-> read_u32_le(b, pt, IN_RightPointer)]
        ELSE [direction |-> FALSE, next_offset |-> IN_RightPointer,
              next_pt |-> read_u32_le(b, pt, IN_RightPointer),
              sibling_pt |-> read_u32_le(b, pt, IN_LeftPointer)]

\* A critbit search that answers one bit below the highest differing bit.
find_critbit_OneLow(first_liquidation_index, second_liquidation_index) ==
    LET x == BitXor(first_liquidation_index, second_liquidation_index)
    IN  IF x = 0 THEN 255
        ELSE LET c == CHOOSE i \in 0..(U64_BITS - 1) :
                          Bit(x, i) = 1
                          /\ \A j \in (i + 1)..(U64_BITS - 1) : Bit(x, j) = 0
             IN  IF c = 0 THEN 0 ELSE c - 1

find_critbit(first_liquidation_index, second_liquidation_index) ==
    LET x == BitXor(first_liquidation_index, second_liquidation_index)
    IN  IF x = 0 THEN 255
        ELSE CHOOSE i \in 0..(U64_BITS - 1) :
                 Bit(x, i) = 1 /\ \A j \in (i + 1)..(U64_BITS - 1) : Bit(x, j) = 0

\* A removal that frees the node and leaves the links above it as they are.
remove_node_NoRelink(b, pt, position_type, mother_pt, grandmother_pt, mother_offset, grandmother_offset) ==
    LET kind == get_node(b, pt)
    IN  IF kind = "Panic" THEN [book |-> b, err |-> "Panic"]
        ELSE Node_free(b, pt, kind)

\* A removal that retires the mother through the garbage list.
remove_node_FlagsMother(b, pt, position_type, mother_pt, grandmother_pt, mother_offset, grandmother_offset) ==
    Let(IF mother_pt # None
        THEN LET sibling_offset == IF mother_offset = IN_LeftPointer
                                   THEN IN_RightPointer
                                   ELSE IN_LeftPointer
                 sibling_pt == read_u32_le(b, mother_pt, sibling_offset)
                 b1 == IF grandmother_pt # None
                       THEN write(b, grandmother_pt, grandmother_offset,
                                  ToLeBytes4(sibling_pt))
                       ELSE set_root(b, sibling_pt, position_type)
             IN flag_for_gc(b1, mother_pt)
        ELSE [book |-> set_root(b, None, position_type), err |-> "Ok"],
        LAMBDA r1 :
        IF r1.err # "Ok" THEN r1
        ELSE LET kind == get_node(r1.book, pt)
             IN  IF kind = "Panic" THEN [book |-> r1.book, err |-> "Panic"]
                 ELSE Node_free(r1.book, pt, kind))

remove_node(b, pt, position_type, mother_pt, grandmother_pt, mother_offset, grandmother_offset) ==
    Let(IF mother_pt # None
        THEN LET sibling_offset == IF mother_offset = IN_LeftPointer
                                   THEN IN_RightPointer
                                   ELSE IN_LeftPointer
                 sibling_pt == read_u32_le(b, mother_pt, sibling_offset)
                 b1 == IF grandmother_pt # None
                       THEN write(b, grandmother_pt, grandmother_offset,
                                  ToLeBytes4(sibling_pt))
                       ELSE set_root(b, sibling_pt, position_type)
             IN Memory_free(b1, mother_pt)
        ELSE [book |-> set_root(b, None, position_type), err |-> "Ok"],
        LAMBDA r1 :
        IF r1.err # "Ok" THEN r1
        ELSE LET kind == get_node(r1.book, pt)
             IN  IF kind = "Panic" THEN [book |-> r1.book, err |-> "Panic"]
                 ELSE Node_free(r1.book, pt, kind))

write_leaf(b, liquidation_index, slot_number, collateral, v_coin, v_pc) ==
    Let(Memory_allocate(b, LeafNode), LAMBDA r :
        IF r.err # "Ok" THEN r
        ELSE LET pt == r.pointer
                 b1 == write(r.book, pt, LF_Collateral, ToLeBytes8(collateral))
                 b2 == write(b1, pt, LF_VCoin, ToLeBytes8(v_coin))
                 b3 == write(b2, pt, LF_SlotNumber, ToLeBytes8(slot_number))
                 b4 == write(b3, pt, LF_LiquidationIndex,
                             ToLeBytes8(liquidation_index))
                 b5 == write(b4, pt, LF_VPc, ToLeBytes8(v_pc))
             IN [book |-> b5, err |-> "Ok", pointer |-> pt])

write_inner(b, critbit, liquidation_index_min, left_pt, right_pt, amounts) ==
    Let(Memory_allocate(b, InnerNode), LAMBDA r :
        IF r.err # "Ok" THEN r
        ELSE LET pt == r.pointer
                 b1 == write(r.book, pt, IN_Critbit, << critbit >>)
                 b2 == write(b1, pt, IN_LiquidationIndexMin,
                             ToLeBytes8(liquidation_index_min))
                 b3 == write(b2, pt, IN_LeftPointer, ToLeBytes4(left_pt))
                 b4 == write(b3, pt, IN_RightPointer, ToLeBytes4(right_pt))
                 b5 == InnerNode_set(b4, pt, amounts)
                 b6 == write(b5, pt, IN_CalculationFlag, << 0 >>)
             IN [book |-> b6, err |-> "Ok", pointer |-> pt])

\* open_position.  a is the call: [liquidation_index, amounts, position_type,
\* slot].  The result is [book, err, leaf].
OpenRes(b, e, leaf) == [book |-> b, err |-> e, leaf |-> leaf]

\* The tail shared by the two splitting branches: allocate the leaf, then the
\* inner node over (old subtree, new leaf), then hang it under the mother.
open_split(b, a, pt, mother_pt, mother_offset, critbit, liq_index_min, existing) ==
    Let(write_leaf(b, a.liquidation_index, a.slot,
                   a.amounts[1], a.amounts[2], a.amounts[3]), LAMBDA r1 :
        IF r1.err # "Ok" THEN OpenRes(r1.book, r1.err, None)
        ELSE
        Ovf(Add3Overflows(a.amounts, existing),
        LET new_leaf_pt == r1.pointer
            left_pt == IF Bit(a.liquidation_index, critbit) = 0
                       THEN new_leaf_pt ELSE pt
            right_pt == IF Bit(a.liquidation_index, critbit) = 0
                        THEN pt ELSE new_leaf_pt
        IN  Let(write_inner(r1.book, critbit, liq_index_min, left_pt,
                            right_pt, Add3(a.amounts, existing)), LAMBDA r2 :
            IF r2.err # "Ok" THEN OpenRes(r2.book, r2.err, None)
            ELSE OpenRes(IF mother_pt # None
                         THEN write(r2.book, mother_pt, mother_offset,
                                    ToLeBytes4(r2.pointer))
                         ELSE set_root(r2.book, r2.pointer, a.position_type),
                         "Ok", new_leaf_pt))))

RECURSIVE open_loop(_, _, _, _, _)
open_loop(b, a, pt, mother_pt, mother_offset) ==
    LET kind == get_node(b, pt)
    IN
    IF kind = "Panic" THEN OpenRes(b, "Panic", None)
    ELSE IF kind = "InnerNode"
    THEN LET critbit == get_critbit(b, pt)
             mm == get_liquidation_index_min_max(b, pt, critbit)
             current == InnerNode_get(b, pt)
         IN
         Ovf(mm.ovf,
         IF a.liquidation_index > mm.max \/ a.liquidation_index < mm.min
         THEN LET new_critbit == find_critbit(a.liquidation_index, mm.min)
                  mask == WrappingSub(Shl(2, new_critbit), 1)
                  new_liq_index_min == BitAnd(a.liquidation_index, BitNot(mask))
              IN  Ovf(SubOverflows(Shl(2, new_critbit), 1),
                      open_split(b, a, pt, mother_pt, mother_offset,
                                 new_critbit, new_liq_index_min, current))
         ELSE Let(InnerNode_set(b, pt, Add3(current, a.amounts)), LAMBDA b1 :
              LET w == walk(b1, pt, a.liquidation_index, critbit)
              IN Ovf(Add3Overflows(current, a.amounts),
                     open_loop(b1, a, w.next_pt, pt, w.next_offset))))
    ELSE LET leaf_liquidation_index == Leaf_get_liquidation_index(b, pt)
             current == Leaf_get(b, pt)
         IN
         IF leaf_liquidation_index = a.liquidation_index
         THEN Ovf(Add3Overflows(a.amounts, current),
                  OpenRes(Leaf_set(b, pt, Add3(a.amounts, current)), "Ok", pt))
         ELSE LET critbit == find_critbit(a.liquidation_index,
                                          leaf_liquidation_index)
                  mask == WrappingSub(Shl(1, critbit), 1)
                  new_liq_index_min ==
                      BitAnd(BitAnd(leaf_liquidation_index, a.liquidation_index),
                             BitNot(mask))
              IN open_split(b, a, pt, mother_pt, mother_offset,
                            critbit, new_liq_index_min, current)

\* An open that stamps the leaf it returns with the slot number of the call.
open_position_Restamps(b, a) ==
    Let(IF get_root(b, a.position_type) = None
        THEN Let(write_leaf(b, a.liquidation_index, a.slot,
                            a.amounts[1], a.amounts[2], a.amounts[3]),
                 LAMBDA r :
                 IF r.err # "Ok" THEN OpenRes(r.book, r.err, None)
                 ELSE OpenRes(set_root(r.book, r.pointer, a.position_type),
                              "Ok", r.pointer))
        ELSE open_loop(b, a, get_root(b, a.position_type), None, None),
        LAMBDA r :
        IF r.err # "Ok" THEN r
        ELSE [r EXCEPT !.book = write(r.book, r.leaf, LF_SlotNumber,
                                      ToLeBytes8(a.slot))])

open_position(b, a) ==
    LET root == get_root(b, a.position_type)
    IN  IF root = None
        THEN Let(write_leaf(b, a.liquidation_index, a.slot,
                            a.amounts[1], a.amounts[2], a.amounts[3]),
                 LAMBDA r :
                 IF r.err # "Ok" THEN OpenRes(r.book, r.err, None)
                 ELSE OpenRes(set_root(r.book, r.pointer, a.position_type),
                              "Ok", r.pointer))
        ELSE open_loop(b, a, root, None, None)

\* close_position.  a is the call: [liquidation_index, amounts, position_type,
\* slot].  The result is [book, err].
RECURSIVE close_update(_, _, _, _, _, _, _, _)
close_update(b, a, new, pt, mother_pt, mother_offset, grandmother_pt, grandmother_offset) ==
    LET kind == get_node(b, pt)
    IN
    IF kind = "Panic" THEN [book |-> b, err |-> "Panic"]
    ELSE IF kind = "InnerNode"
    THEN LET critbit == get_critbit(b, pt)
             current == InnerNode_get(b, pt)
         IN  Let(InnerNode_set(b, pt, Sub3(current, a.amounts)), LAMBDA b1 :
             LET w == walk(b1, pt, a.liquidation_index, critbit)
             IN  Ovf(Sub3Overflows(current, a.amounts),
                     close_update(b1, a, new, w.next_pt, pt, w.next_offset,
                                  mother_pt, mother_offset)))
    ELSE IF new[1] = 0
         THEN remove_node(b, pt, a.position_type, mother_pt, grandmother_pt,
                          mother_offset, grandmother_offset)
         ELSE [book |-> Leaf_set(b, pt, new), err |-> "Ok"]

RECURSIVE close_find(_, _, _)
close_find(b, a, pt) ==
    LET kind == get_node(b, pt)
    IN
    IF kind = "Panic" THEN [book |-> b, err |-> "Panic"]
    ELSE IF kind = "InnerNode"
    THEN LET critbit == get_critbit(b, pt)
             mm == get_liquidation_index_min_max(b, pt, critbit)
         IN  Ovf(mm.ovf,
             IF a.liquidation_index > mm.max \/ a.liquidation_index < mm.min
             THEN [book |-> b, err |-> "PositionNotFound"]
             ELSE close_find(b, a, walk(b, pt, a.liquidation_index, critbit).next_pt))
    ELSE IF /\ Leaf_get_liquidation_index(b, pt) = a.liquidation_index
            /\ Leaf_get_slot(b, pt) = a.slot
         THEN IF a.amounts[1] = 0 /\ a.amounts[2] = 0
              THEN [book |-> b, err |-> "Ok"]
              ELSE LET current == Leaf_get(b, pt)
                   IN  Ovf(Sub3Overflows(current, a.amounts),
                           close_update(b, a, Sub3(current, a.amounts),
                                        get_root(b, a.position_type),
                                        None, None, None, None))
         ELSE [book |-> b, err |-> "PositionNotFound"]

\* A close that reports success on a side without root.
close_position_OkOnEmpty(b, a) ==
    LET root == get_root(b, a.position_type)
    IN  IF root = None
        THEN [book |-> b, err |-> "Ok"]
        ELSE close_find(b, a, root)

close_position(b, a) ==
    LET root == get_root(b, a.position_type)
    IN  IF root = None
        THEN [book |-> b, err |-> "PositionNotFound"]
        ELSE close_find(b, a, root)

\* liquidate.  a is the call: [liquidation_index, position_type]; tl is
\* (collateral_to_liquidate, v_coin_to_liquidate, v_pc_to_liquidate).
LiqRes(b, e) == [book |-> b, err |-> e]

\* The nodes a liquidation stands on, in order: a book that carries a
\* visited sequence gets every node appended that one of liquidate's loops
\* makes its current node; a book without one is left as it is.
Visit(b, pt) ==
    IF "visited" \in DOMAIN b THEN [b EXCEPT !.visited = Append(@, pt)] ELSE b

\* The "direction ^ is_short" branch the three walks share: the sibling
\* subtree is liquidated, the current inner node is freed and the node
\* below takes its place under the mother.
liq_cut_sibling(b, a, pt, w, tl, mother_pt, mother_offset) ==
    LET skind == get_node(b, w.sibling_pt)
    IN
    IF skind = "Panic" THEN [book |-> b, err |-> "Panic", tl |-> tl]
    ELSE LET sib == Node_get(b, w.sibling_pt, skind)
         IN
         Ovf(Sub3Overflows(tl, sib),
              LET b1 == IF mother_pt # None
                        THEN write(b, mother_pt, mother_offset,
                                   ToLeBytes4(w.next_pt))
                        ELSE b
              IN  Let(Memory_free(b1, pt), LAMBDA r1 :
                  IF r1.err # "Ok"
                  THEN [book |-> r1.book, err |-> r1.err, tl |-> tl]
                  ELSE
                  LET b2 == IF mother_pt # None THEN r1.book
                            ELSE set_root(r1.book, w.next_pt, a.position_type)
                  IN  Let(Node_free(b2, w.sibling_pt, skind), LAMBDA r2 :
                      [book |-> r2.book, err |-> r2.err,
                       tl |-> Sub3(tl, sib)])))

RECURSIVE liq_excise(_, _, _, _, _, _, _, _, _)
liq_excise(book, a, pt, liquidation_critbit, tl, mother_pt, mother_offset, grandmother_pt, grandmother_offset) ==
    LET b == Visit(book, pt)
        kind == get_node(b, pt)
        is_short == a.position_type = Short
    IN
    IF kind # "InnerNode" THEN LiqRes(b, "Panic")
    ELSE LET critbit == get_critbit(b, pt)
             current == InnerNode_get(b, pt)
         IN
         IF liquidation_critbit = critbit
         THEN remove_node(b, pt, a.position_type, mother_pt, grandmother_pt,
                          mother_offset, grandmother_offset)
         ELSE Let(InnerNode_set(b, pt, Sub3(current, tl)), LAMBDA b1 :
              LET w == walk(b1, pt, a.liquidation_index, critbit)
              IN  Ovf(Sub3Overflows(current, tl),
                  IF w.direction # is_short
                  THEN Let(liq_cut_sibling(b1, a, pt, w, tl,
                                           mother_pt, mother_offset), LAMBDA r :
                           Ovf(Trapped(r),
                           IF r.err # "Ok" THEN LiqRes(r.book, r.err)
                           ELSE liq_excise(r.book, a, w.next_pt,
                                           liquidation_critbit, r.tl,
                                           mother_pt, mother_offset,
                                           grandmother_pt, grandmother_offset)))
                  ELSE liq_excise(b1, a, w.next_pt, liquidation_critbit, tl,
                                  pt, w.next_offset, mother_pt, mother_offset)))

RECURSIVE liq_survive(_, _, _, _, _, _)
liq_survive(book, a, pt, tl, mother_pt, mother_offset) ==
    LET b == Visit(book, pt)
        is_short == a.position_type = Short
    IN
    IF tl[1] = 0 THEN LiqRes(book, "Ok")
    ELSE IF get_node(b, pt) # "InnerNode" THEN LiqRes(b, "Panic")
    ELSE LET critbit == get_critbit(b, pt)
             w == walk(b, pt, a.liquidation_index, critbit)
             current == InnerNode_get(b, pt)
         IN
         \* checked_sub(..).unwrap(): traps in every build
         IF Sub3Overflows(current, tl) THEN LiqRes(b, "Panic")
         ELSE Let(InnerNode_set(b, pt, Sub3(current, tl)), LAMBDA b1 :
                  IF w.direction # is_short
                  THEN Let(liq_cut_sibling(b1, a, pt, w, tl,
                                           mother_pt, mother_offset), LAMBDA r :
                           Ovf(Trapped(r),
                           IF r.err # "Ok" THEN LiqRes(r.book, r.err)
                           ELSE liq_survive(r.book, a, w.next_pt, r.tl,
                                            mother_pt, mother_offset)))
                  ELSE liq_survive(b1, a, w.next_pt, tl, pt, w.next_offset))

RECURSIVE liq_walk(_, _, _, _, _, _, _, _)
liq_walk(book, a, pt, tl, mother_pt, mother_offset, grandmother_pt, grandmother_offset) ==
    LET b == Visit(book, pt)
        kind == get_node(b, pt)
        is_short == a.position_type = Short
    IN
    IF kind = "Panic" THEN LiqRes(b, "Panic")
    ELSE IF kind = "Leaf"
    THEN IF tl[1] # 0
         THEN remove_node(b, pt, a.position_type, mother_pt, grandmother_pt,
                          mother_offset, grandmother_offset)
         ELSE LiqRes(b, "Ok")
    ELSE LET critbit == get_critbit(b, pt)
             current == InnerNode_get(b, pt)
         IN
         Let(InnerNode_set(b, pt, Sub3(current, tl)), LAMBDA b1 :
         LET w == walk(b1, pt, a.liquidation_index, critbit)
         IN  Ovf(Sub3Overflows(current, tl),
             IF w.direction # is_short
             THEN Let(liq_cut_sibling(b1, a, pt, w, tl,
                                      mother_pt, mother_offset), LAMBDA r :
                      Ovf(Trapped(r),
                      IF r.err # "Ok" THEN LiqRes(r.book, r.err)
                      ELSE liq_walk(r.book, a, w.next_pt, r.tl,
                                    mother_pt, mother_offset,
                                    grandmother_pt, grandmother_offset)))
             ELSE liq_walk(b1, a, w.next_pt, tl, pt, w.next_offset,
                           mother_pt, mother_offset)))

RECURSIVE liq_descend(_, _, _, _)
liq_descend(book, a, pt, tl) ==
    LET b == Visit(book, pt)
        kind == get_node(b, pt)
        is_short == a.position_type = Short
        root == get_root(b, a.position_type)
    IN
    IF kind = "Panic" THEN LiqRes(b, "Panic")
    ELSE IF kind = "InnerNode"
    THEN LET critbit == get_critbit(b, pt)
             mm == get_liquidation_index_min_max(b, pt, critbit)
         IN
         Ovf(mm.ovf,
         IF a.liquidation_index > mm.max \/ a.liquidation_index < mm.min
         THEN IF is_short # (a.liquidation_index < mm.min)
              THEN Ovf(Add3Overflows(tl, InnerNode_get(b, pt)),
                       liq_excise(b, a, root, critbit,
                                  Add3(tl, InnerNode_get(b, pt)),
                                  None, None, None, None))
              ELSE liq_survive(b, a, root, tl, None, None)
         ELSE LET w == walk(b, pt, a.liquidation_index, critbit)
              IN  IF w.direction # is_short
                  THEN LET skind == get_node(b, w.sibling_pt)
                       IN  IF skind = "Panic" THEN LiqRes(b, "Panic")
                           ELSE Ovf(Add3Overflows(tl, Node_get(b, w.sibling_pt, skind)),
                                    liq_descend(b, a, w.next_pt,
                                        Add3(tl, Node_get(b, w.sibling_pt, skind))))
                  ELSE liq_descend(b, a, w.next_pt, tl))
    ELSE LET leaf_liquidation_index == Leaf_get_liquidation_index(b, pt)
             hit == \/ (a.liquidation_index < leaf_liquidation_index) # is_short
                    \/ a.liquidation_index = leaf_liquidation_index
             tl1 == IF hit THEN Add3(tl, Leaf_get(b, pt)) ELSE tl
         IN  Ovf(hit /\ Add3Overflows(tl, Leaf_get(b, pt)),
                 IF tl1[1] = 0 THEN LiqRes(b, "Ok")
                 ELSE liq_walk(b, a, root, tl1, None, None, None, None))

\* A liquidation that starts its walk without looking at the root first.
liquidate_NoEarlyReturn(b, a) ==
    liq_descend(b, a, get_root(b, a.position_type), << 0, 0, 0 >>)

\* A liquidation that goes down the side once more after it is done.
liquidate_ThreeDescents(b, a) ==
    IF get_root(b, a.position_type) = None
    THEN LiqRes(b, "Ok")
    ELSE Let(liq_descend(b, a, get_root(b, a.position_type), << 0, 0, 0 >>), LAMBDA r :
             IF r.err # "Ok" \/ get_root(r.book, a.position_type) = None THEN r
             ELSE liq_descend(r.book, a, get_root(r.book, a.position_type),
                              << 0, 0, 0 >>))

\* A liquidation that reports success and removes nothing.
liquidate_KeepsBook(b, a) == LiqRes(b, "Ok")

liquidate(b, a) ==
    IF get_root(b, a.position_type) = None
    THEN LiqRes(b, "Ok")
    ELSE liq_descend(b, a, get_root(b, a.position_type), << 0, 0, 0 >>)

\* compute_aggregate_position: the side's leaves are visited from the left
\* with the right children kept on a stack, and the collateral and v_coin of
\* every leaf whose liquidation_index is not 0 are added up with checked
\* additions, whose overflow panics.  (The third total, v_pc, is recomputed
\* from each leaf's liquidation_index in 128-bit fixed point and is left out.)
AggRes(b, err, total_collateral, total_v_coin) ==
    [book |-> b, err |-> err, total_collateral |-> total_collateral,
     total_v_coin |-> total_v_coin]

\* The most entries the traversal's stack has held: a book that carries a
\* max_stack field has it raised to n; a book without one is left as it is.
Stacked(b, n) ==
    IF "max_stack" \in DOMAIN b /\ n > b.max_stack
    THEN [b EXCEPT !.max_stack = n] ELSE b

\* A traversal that pushes every right child twice.
RECURSIVE agg_loop_KeepsRight(_, _, _, _, _)
agg_loop_KeepsRight(book, current, stack, total_collateral, total_v_coin) ==
    LET b == Visit(book, current)
    IN
    IF get_node(b, current) = "Panic" THEN AggRes(b, "Panic", 0, 0)
    ELSE IF get_node(b, current) = "InnerNode"
    THEN agg_loop_KeepsRight(
             Stacked(b, Len(stack) + 2),
             read_u32_le(b, current, IN_LeftPointer),
             stack \o << read_u32_le(b, current, IN_RightPointer),
                         read_u32_le(b, current, IN_RightPointer) >>,
             total_collateral, total_v_coin)
    ELSE LET counted == Leaf_get_liquidation_index(b, current) # 0
             leaf == Leaf_get(b, current)
             c == IF counted THEN total_collateral + leaf[1] ELSE total_collateral
             vc == IF counted THEN total_v_coin + leaf[2] ELSE total_v_coin
         IN  IF c > U64_MAX \/ vc > U64_MAX THEN AggRes(b, "Panic", 0, 0)
             ELSE IF stack = << >> THEN AggRes(b, "Ok", c, vc)
             ELSE agg_loop_KeepsRight(b, stack[Len(stack)],
                                      SubSeq(stack, 1, Len(stack) - 1), c, vc)

RECURSIVE agg_loop(_, _, _, _, _)
agg_loop(book, current, stack, total_collateral, total_v_coin) ==
    LET b == Visit(book, current)
    IN
    IF get_node(b, current) = "Panic" THEN AggRes(b, "Panic", 0, 0)
    ELSE IF get_node(b, current) = "InnerNode"
    THEN agg_loop(Stacked(b, Len(stack) + 1),
                  read_u32_le(b, current, IN_LeftPointer),
                  Append(stack, read_u32_le(b, current, IN_RightPointer)),
                  total_collateral, total_v_coin)
    ELSE LET counted == Leaf_get_liquidation_index(b, current) # 0
             leaf == Leaf_get(b, current)
             c == IF counted THEN total_collateral + leaf[1] ELSE total_collateral
             vc == IF counted THEN total_v_coin + leaf[2] ELSE total_v_coin
         IN  IF c > U64_MAX \/ vc > U64_MAX THEN AggRes(b, "Panic", 0, 0)
             ELSE IF stack = << >> THEN AggRes(b, "Ok", c, vc)
             ELSE agg_loop(b, stack[Len(stack)], SubSeq(stack, 1, Len(stack) - 1),
                           c, vc)

compute_aggregate_position(b, side) ==
    IF get_root(b, side) = None THEN AggRes(b, "Ok", 0, 0)
    ELSE agg_loop(b, get_root(b, side), << >>, 0, 0)

\* get_collateral: the collateral stored at the two roots, added together
\* without a check.
get_collateral(b) ==
    LET longs == IF b.longs_root = None THEN 0
                 ELSE Node_get(b, b.longs_root, get_node(b, b.longs_root))[1]
        shorts == IF b.shorts_root = None THEN 0
                  ELSE Node_get(b, b.shorts_root, get_node(b, b.shorts_root))[1]
    IN  Ovf(AddOverflows(longs, shorts), [sum |-> WrappingAdd(longs, shorts)])

\* The instance descriptor that Instance::update copies out of the book: the
\* two roots, the garbage list's head and, page by page, the high-water mark
\* and the free list's head.
Instance(b) ==
    [shorts_pointer |-> b.shorts_root, longs_pointer |-> b.longs_root,
     garbage_pointer |-> b.gc_list_hd,
     page_infos |-> [i \in 1..Len(b.pages) |->
                        [uninitialized_memory |-> b.pages[i].uninitialized_memory,
                         free_slot_list_hd |-> b.pages[i].free_slot_list_hd]]]

\* process_liquidation, as far as the book is concerned: the shorts are
\* liquidated, then the longs, and the collateral the book lost decides
\* between Nop and the bookkeeping that ends in the instance descriptor and
\* the market state being written back.  instance is the descriptor the
\* accounts hold after the call and total_collateral what the market state's
\* total went down by.
LiquidationRes(b, err, instance, total_collateral) ==
    [book |-> b, err |-> err, instance |-> instance,
     total_collateral |-> total_collateral]

process_liquidation(b, liquidation_index) ==
    LET shorts == liquidate(b, [liquidation_index |-> liquidation_index,
                                position_type |-> Short])
        longs == liquidate(shorts.book, [liquidation_index |-> liquidation_index,
                                         position_type |-> Long])
        collateral == get_collateral(b)
        left == get_collateral(longs.book)
        liquidated_collateral == WrappingSub(collateral.sum, left.sum)
    IN  IF shorts.err # "Ok" THEN LiquidationRes(b, shorts.err, Instance(b), 0)
        ELSE IF longs.err # "Ok" THEN LiquidationRes(b, longs.err, Instance(b), 0)
        ELSE Ovf(\/ Trapped(shorts) \/ Trapped(longs)
                 \/ Trapped(collateral) \/ Trapped(left)
                 \/ SubOverflows(collateral.sum, left.sum),
                 IF liquidated_collateral = 0
                 THEN LiquidationRes(b, "Nop", Instance(b), 0)
                 ELSE LiquidationRes(longs.book, "Ok", Instance(longs.book),
                                     liquidated_collateral))

\* The user account: a header with the number of open positions and the
\* active flag, and the position records behind it by index.  A record keeps
\* what open_position was called with and the slot_number of its leaf.
MAX_OPEN_POSITONS_PER_USER == MaxPositions

get_position(account, position_index) ==
    IF account.number_of_open_positions - 1 < position_index
    THEN [err |-> "PositionNotFound", position |-> None]
    ELSE IF position_index + 1 > Len(account.data)
    THEN [err |-> "InvalidArgument", position |-> None]
    ELSE [err |-> "Ok", position |-> account.data[position_index + 1]]

write_position(account, position_index, position, overwrite) ==
    IF position_index + 1 > Len(account.data)
    THEN [err |-> "OutOfSpace", account |-> account]
    ELSE IF /\ ~overwrite
            /\ account.data[position_index + 1] # None
            /\ position_index < account.number_of_open_positions - 1
    THEN [err |-> "InvalidArgument", account |-> account]
    ELSE IF position_index > account.number_of_open_positions - 1
    THEN IF account.number_of_open_positions > MAX_OPEN_POSITONS_PER_USER - 1
         THEN [err |-> "TooManyOpenPositions", account |-> account]
         ELSE [err |-> "Ok",
               account |-> [number_of_open_positions |->
                                account.number_of_open_positions + 1,
                            active |-> TRUE,
                            data |-> [account.data EXCEPT
                                         ![position_index + 1] = position]]]
    ELSE [err |-> "Ok",
          account |-> [account EXCEPT !.data[position_index + 1] = position]]

\* A removal that only lowers the count.
remove_position_NoRemap(account, position_index) ==
    IF account.number_of_open_positions = 0
    THEN [err |-> "PositionNotFound", account |-> account]
    ELSE [err |-> "Ok",
          account |-> [account EXCEPT
                          !.number_of_open_positions = @ - 1,
                          !.active = account.number_of_open_positions - 1 # 0]]

remove_position(account, position_index) ==
    IF account.number_of_open_positions = 0
    THEN [err |-> "PositionNotFound", account |-> account]
    ELSE LET last_index == account.number_of_open_positions - 1
         IN  Let(IF position_index # last_index
                 THEN Let(get_position(account, last_index), LAMBDA g :
                          IF g.err # "Ok"
                          THEN [err |-> g.err, account |-> account]
                          ELSE write_position(account, position_index,
                                              g.position, TRUE))
                 ELSE [err |-> "Ok", account |-> account],
                 LAMBDA w :
                 IF w.err # "Ok" THEN [err |-> w.err, account |-> account]
                 ELSE [err |-> "Ok",
                       account |-> [w.account EXCEPT
                                       !.number_of_open_positions = @ - 1,
                                       !.active = last_index # 0]])

\* process_close_position up to the point where the book has answered: the
\* record is read, the book is asked to close it with the record's amounts,
\* and PositionNotFound makes the processor drop the record, write the
\* account's header and return Ok before anything else is written.  Any
\* other error is unwrapped.  What follows an Ok of the book (payout, fees,
\* the market state and the instance being written back) is summed up in
\* written.
CloseRes(err, account, b, instance, written) ==
    [err |-> err, account |-> account, book |-> b, instance |-> instance,
     written |-> written]

process_close_position(b, account, position_index) ==
    Let(get_position(account, position_index), LAMBDA g :
        IF g.err # "Ok" THEN CloseRes(g.err, account, b, Instance(b), FALSE)
        ELSE IF account.number_of_open_positions <= position_index
        THEN CloseRes("InvalidArgument", account, b, Instance(b), FALSE)
        ELSE Let(close_position(b, [liquidation_index |-> g.position.liquidation_index,
                                    amounts |-> g.position.amounts,
                                    position_type |-> g.position.side,
                                    slot |-> g.position.slot_number]), LAMBDA r :
             IF r.err = "Ok"
             THEN CloseRes("Ok", account, r.book, Instance(r.book), TRUE)
             ELSE IF r.err = "PositionNotFound"
             THEN Let(remove_position(account, position_index), LAMBDA m :
                      IF m.err # "Ok"
                      THEN CloseRes(m.err, account, b, Instance(b), FALSE)
                      ELSE CloseRes("Ok", m.account, b, Instance(b), FALSE))
             ELSE CloseRes("Panic", account, b, Instance(b), FALSE)))

\* ------------------------------------------------------------ state machine
\* The engine's state as its caller persists it between calls, the caller's
\* own records of the positions it opened, and the clock.
VARIABLES pages, gc_list_hd, shorts_root, longs_root, flagged,
          positions, slot, calls, last, page, lost

vars == << pages, gc_list_hd, shorts_root, longs_root, flagged,
           positions, slot, calls, last, page, lost >>
bookVars == << pages, gc_list_hd, shorts_root, longs_root, flagged >>

Book == [pages |-> pages, gc_list_hd |-> gc_list_hd,
         shorts_root |-> shorts_root, longs_root |-> longs_root,
         flagged |-> flagged]
BookNext == [pages |-> pages', gc_list_hd |-> gc_list_hd',
             shorts_root |-> shorts_root', longs_root |-> longs_root',
             flagged |-> flagged']

Commit(b) ==
    /\ pages' = b.pages
    /\ gc_list_hd' = b.gc_list_hd
    /\ shorts_root' = b.shorts_root
    /\ longs_root' = b.longs_root
    /\ flagged' = b.flagged

\* Inputs.  Keys hold two neighbours under one low critbit and one key
\* outside their range with the top bit of the word set.
Keys == {2, 3, 2 ^ (U64_BITS - 1) + 1}
LongKeys == {3}
KeysOf(side) == IF side = Long THEN LongKeys ELSE Keys
Thresholds == 0..U64_MAX
AllKeys == 0..U64_MAX
Slots == 0..MaxSlot
Amounts == { << 1, 1, 2 >>, << 2, 1, 1 >> }

\* The last call and how it ended; side and key say which position an
\* open_position or close_position was about.
Last(op, err, side, key) == [op |-> op, err |-> err, side |-> side, key |-> key]

Init ==
    /\ pages = [i \in 1..NumPages |-> NewPage(PageSize)]
    /\ gc_list_hd = None
    /\ shorts_root = None
    /\ longs_root = None
    /\ flagged = {}
    /\ positions = EmptyBag
    /\ slot = 0
    /\ calls = 0
    /\ last = Last("new", "Ok", "-", None)
    /\ page = NewPage(PageSize)
    /\ lost = {}

\* lost remembers the recorded positions' keys, with their side, that a
\* liquidation has put on the losing side (shorts at or below the threshold,
\* longs at or above it) and that no open_position has inserted since.
Loses(side, k, t) == IF side = Short THEN k <= t ELSE k >= t
Liquidated(side, t) ==
    { << p.side, p.liquidation_index >> :
        p \in { q \in BagToSet(positions) :
                   q.side = side /\ Loses(side, q.liquidation_index, t) } }

\* What a call can end in: the result of the wrapping run and, when that
\* run passed an overflow, the panic of a build with overflow checks.
Errs(r) == {r.err} \cup (IF Trapped(r) THEN {"Panic"} ELSE {})

\* The caller opens a position and, when the engine accepts it, records it
\* under the slot number of the leaf it landed in.  A failed call is not
\* committed.
OpenPosition(side, liquidation_index, amounts) ==
    /\ calls < MaxCalls
    /\ calls' = calls + 1
    /\ LET a == [liquidation_index |-> liquidation_index, amounts |-> amounts,
                 position_type |-> side, slot |-> slot]
       IN  \E r \in {open_position(Book, a)} : \E err \in Errs(r) :
           /\ last' = Last("open_position", err, side, liquidation_index)
           /\ IF err = "Ok"
              THEN /\ Commit(r.book)
                   /\ positions' = positions (+) SetToBag({
                          [side |-> side, liquidation_index |-> liquidation_index,
                           amounts |-> amounts,
                           slot_number |-> Leaf_get_slot(r.book, r.leaf)]})
                   /\ lost' = lost \ {<< side, liquidation_index >>}
              ELSE UNCHANGED << bookVars, positions, lost >>
    /\ UNCHANGED << slot, page >>

\* The caller closes one of its recorded positions with the recorded
\* amounts.  PositionNotFound tells it the position was liquidated: it drops
\* the record.
ClosePosition(p) ==
    /\ calls < MaxCalls
    /\ calls' = calls + 1
    /\ p \in BagToSet(positions)
    /\ LET a == [liquidation_index |-> p.liquidation_index,
                 amounts |-> p.amounts, position_type |-> p.side,
                 slot |-> p.slot_number]
       IN  \E r \in {close_position(Book, a)} : \E err \in Errs(r) :
           /\ last' = Last("close_position", err, p.side, p.liquidation_index)
           /\ IF err = "Ok"
              THEN /\ Commit(r.book)
                   /\ positions' = positions (-) SetToBag({p})
              ELSE IF err = "PositionNotFound"
              THEN /\ UNCHANGED bookVars
                   /\ positions' = positions (-) SetToBag({p})
              ELSE UNCHANGED << bookVars, positions >>
    /\ UNCHANGED << slot, page, lost >>

Liquidate(liquidation_index, side) ==
    /\ calls < MaxCalls
    /\ calls' = calls + 1
    /\ LET a == [liquidation_index |-> liquidation_index,
                 position_type |-> side]
       IN  \E r \in {liquidate(Book, a)} : \E err \in Errs(r) :
           /\ last' = Last("liquidate", err, side, None)
           /\ IF err = "Ok"
              THEN /\ Commit(r.book)
                   /\ lost' = lost \cup Liquidated(side, liquidation_index)
              ELSE UNCHANGED << bookVars, lost >>
    /\ UNCHANGED << positions, slot, page >>

CrankGarbageCollector(max_iterations) ==
    /\ calls < MaxCalls
    /\ calls' = calls + 1
    /\ \E r \in {crank_garbage_collector(Book, max_iterations)} :
           /\ last' = Last("crank_garbage_collector", r.err, "-", None)
           /\ IF r.err = "Ok" THEN Commit(r.book) ELSE UNCHANGED bookVars
    /\ UNCHANGED << positions, slot, page, lost >>

Tick ==
    /\ calls < MaxCalls
    /\ calls' = calls + 1
    /\ slot < MaxSlot
    /\ slot' = slot + 1
    /\ last' = Last("tick", "Ok", "-", None)
    /\ UNCHANGED << bookVars, positions, page, lost >>

Next ==
    \/ \E side \in PositionType, amounts \in Amounts :
           \E k \in KeysOf(side) :
               /\ BagCardinality(positions) < MaxPositions
               /\ OpenPosition(side, k, amounts)
    \/ \E p \in BagToSet(positions) : ClosePosition(p)
    \/ \E t \in Thresholds, side \in PositionType : Liquidate(t, side)
    \/ \E n \in 1..MaxIterations : CrankGarbageCollector(n)
    \/ Tick

Spec == Init /\ [][Next]_vars

\* ------------------------------------------------- building one side only
\* Runs that insert positions into one empty side and then end in a single
\* liquidate or close_position on it, whose threshold or key is recorded.
BuildKeys == {1, 2, 5, 2 ^ (U64_BITS - 1) + 1}
Building == last.op \in {"new", "open_position"}

BuildOpen(side, liquidation_index, amounts) ==
    /\ Building
    /\ BagCardinality(positions) < MaxBuild
    /\ \A p \in BagToSet(positions) : p.side = side
    /\ OpenPosition(side, liquidation_index, amounts)

BuildLiquidate(liquidation_index, side) ==
    /\ Building
    /\ \A p \in BagToSet(positions) : p.side = side
    /\ calls' = calls + 1
    /\ LET a == [liquidation_index |-> liquidation_index,
                 position_type |-> side]
       IN  \E r \in {liquidate(Book, a)} : \E err \in Errs(r) :
           /\ last' = Last("liquidate", err, side, liquidation_index)
           /\ IF err = "Ok"
              THEN /\ Commit(r.book)
                   /\ lost' = lost \cup Liquidated(side, liquidation_index)
              ELSE UNCHANGED << bookVars, lost >>
    /\ UNCHANGED << positions, slot, page >>

BuildClose(p) ==
    /\ Building
    /\ ClosePosition(p)

NextBuild ==
    \/ \E side \in PositionType, k \in BuildKeys, amounts \in Amounts :
           BuildOpen(side, k, amounts)
    \/ \E t \in Thresholds, side \in PositionType : BuildLiquidate(t, side)
    \/ \E p \in BagToSet(positions) : BuildClose(p)

SpecBuild == Init /\ [][NextBuild]_vars

\* ------------------------------------------- collecting a retired subtree
\* Runs that build the shorts side, retire part of it with one liquidate and
\* from then on only call the collector, with any iteration count; the
\* collector's return value is recorded in last.key.  GcKeys give subtrees
\* whose right child is an inner node.
GcKeys == {1, 5, 6, 2 ^ (U64_BITS - 1) + 1}
GcAmounts == { << 1, 1, 2 >> }
Collecting == last.op \in {"liquidate", "crank_garbage_collector"}

GcOpen(liquidation_index, amounts) == BuildOpen(Short, liquidation_index, amounts)

GcLiquidate(liquidation_index) ==
    /\ Building
    /\ Liquidate(liquidation_index, Short)

GcCrank(max_iterations) ==
    /\ Collecting
    /\ \E r \in {crank_garbage_collector(Book, max_iterations)} :
           /\ last' = Last("crank_garbage_collector", r.err, "-", r.freed_slots)
           /\ IF r.err = "Ok" THEN Commit(r.book) ELSE UNCHANGED bookVars
    /\ UNCHANGED << positions, slot, calls, page, lost >>

NextGc ==
    \/ \E k \in GcKeys, amounts \in GcAmounts : GcOpen(k, amounts)
    \/ \E t \in Thresholds : GcLiquidate(t)
    \/ \E n \in 1..MaxIterations : GcCrank(n)

SpecGc == Init /\ [][NextGc]_vars

\* The caller keeps calling the collector once it has started.
SpecGcRepeated ==
    SpecGc /\ WF_vars(\E n \in 1..MaxIterations : GcCrank(n))

\* ------------------------------------------------------------- one page
\* Page::allocate and Page::free called directly on one page.  A slot is
\* freed only while it is allocated.
SlotTypes == {InnerNode, LeafNode}

PageAllocate(slot_type) ==
    /\ page.uninitialized_memory < page.page_size + MaxFailedAllocs
    /\ \E r \in {Page_allocate(page, slot_type)} :
           /\ r.err # "Panic"
           /\ page' = r.page
           /\ last' = Last("Page::allocate", r.err, "-", r.pointer)
    /\ UNCHANGED << bookVars, positions, slot, calls, lost >>

PageFree(pointer) ==
    /\ pointer < page.uninitialized_memory
    /\ pointer < page.page_size
    /\ Page_read_byte(page, pointer, 0) \in SlotTypes
    /\ \E r \in {Page_free(page, pointer)} :
           /\ r.err = "Ok"
           /\ page' = r.page
           /\ last' = Last("Page::free", r.err, "-", pointer)
    /\ UNCHANGED << bookVars, positions, slot, calls, lost >>

NextPage ==
    \/ \E slot_type \in SlotTypes : PageAllocate(slot_type)
    \/ \E pointer \in 0..(PageSize - 1) : PageFree(pointer)

SpecPage == Init /\ [][NextPage]_vars

\* ------------------------------------------------------- the memory alone
\* Memory::allocate and Memory::free called directly, as tests::memory_test
\* does.  A slot is freed only while it is allocated; calls counts the frees.
MemAllocate(slot_type) ==
    /\ \E r \in {Memory_allocate(Book, slot_type)} :
           /\ r.err # "Panic"
           /\ pages' = r.book.pages
           /\ last' = Last("Memory::allocate", r.err, "-", r.pointer)
    /\ UNCHANGED << gc_list_hd, shorts_root, longs_root, flagged,
                    positions, slot, calls, page, lost >>

MemFree(i, pointer) ==
    /\ calls < MaxFrees
    /\ calls' = calls + 1
    /\ pointer < pages[i].uninitialized_memory
    /\ Page_read_byte(pages[i], pointer, 0) \in SlotTypes
    /\ \E r \in {Memory_free(Book, (i - 1) * (2 ^ PAGE_SHIFT) + pointer)} :
           /\ r.err = "Ok"
           /\ pages' = r.book.pages
           /\ last' = Last("Memory::free", r.err, "-",
                           (i - 1) * (2 ^ PAGE_SHIFT) + pointer)
    /\ UNCHANGED << gc_list_hd, shorts_root, longs_root, flagged,
                    positions, slot, page, lost >>

NextMemory ==
    \/ MemAllocate(LeafNode)
    \/ \E i \in 1..NumPages, pointer \in 0..(PageSize - 1) : MemFree(i, pointer)

SpecMemory == Init /\ [][NextMemory]_vars

\* -------------------------------------------------------- reading the book
\* What the claims speak about, read off a book b.  Walks carry fuel so that
\* they end on a corrupted (cyclic) structure too.
Fuel == NumPages * PageSize + 1

Tag(b, pt) == IF PtrOk(b, pt) THEN read_byte(b, pt, 0) ELSE None

\* every slot reachable from pt through left/right pointers
RECURSIVE Reach(_, _, _)
Reach(b, pt, fuel) ==
    IF pt = None \/ fuel = 0 \/ ~PtrOk(b, pt) THEN {}
    ELSE IF Tag(b, pt) = InnerNode
    THEN {pt} \cup Reach(b, read_u32_le(b, pt, IN_LeftPointer), fuel - 1)
              \cup Reach(b, read_u32_le(b, pt, IN_RightPointer), fuel - 1)
    ELSE {pt}

Live(b) == Reach(b, b.shorts_root, Fuel) \cup Reach(b, b.longs_root, Fuel)

\* the leaves below pt, and the plain (unbounded) sums of their fields
Leaves(b, pt) == {l \in Reach(b, pt, Fuel) : Tag(b, l) = LeafNode}

RECURSIVE SumOver(_, _)
SumOver(b, ls) ==
    IF ls = {} THEN << 0, 0, 0 >>
    ELSE LET l == CHOOSE x \in ls : TRUE
             rest == SumOver(b, ls \ {l})
             v == Leaf_get(b, l)
         IN << v[1] + rest[1], v[2] + rest[2], v[3] + rest[3] >>

LeafSum(b, pt) == SumOver(b, Leaves(b, pt))

AggregatesConsistent(b) ==
    \A pt \in Live(b) :
        Tag(b, pt) = InnerNode => InnerNode_get(b, pt) = LeafSum(b, pt)

\* C1: in every reachable state, every inner node reachable from either root
\* stores collateral, v_coin and v_pc equal to the sums of those fields over
\* all the leaves of its subtree.
C1_AggregatesAreSubtreeSums == AggregatesConsistent(Book)

\* ------------------------------------------------- what the caller recorded
Plus3(x, y) == << x[1] + y[1], x[2] + y[2], x[3] + y[3] >>
Minus3(x, y) == << x[1] - y[1], x[2] - y[2], x[3] - y[3] >>

\* get_collateral, get_v_coin and get_v_pc of a side: the root's amounts, and
\* zero for a side without root.
RootAggregates(b, side) ==
    LET root == get_root(b, side)
    IN  IF root = None THEN << 0, 0, 0 >>
        ELSE Node_get(b, root, get_node(b, root))

\* The plain sum of the amounts of a bag of position records.
RECURSIVE SumBag(_)
SumBag(B) ==
    IF BagToSet(B) = {} THEN << 0, 0, 0 >>
    ELSE LET p == CHOOSE x \in BagToSet(B) : TRUE
         IN  Plus3(p.amounts, SumBag(B (-) SetToBag({p})))

\* The recorded positions of a side, and those a liquidation at threshold
\* t leaves: shorts strictly above it, longs strictly below it.
On(side) ==
    [p \in {q \in BagToSet(positions) : q.side = side} |-> positions[p]]
Survives(side, k, t) == IF side = Short THEN k > t ELSE k < t
Surviving(side, t) ==
    [p \in {q \in BagToSet(positions) :
               q.side = side /\ Survives(side, q.liquidation_index, t)}
       |-> positions[p]]

\* C2: positions are inserted into an empty side and liquidate(T, side) then
\* succeeds: the side's root aggregates are the sums over the inserted
\* positions that survive T (shorts with liquidation_index > T, longs with
\* liquidation_index < T), and the side has no root when none survives.
C2_LiquidateLeavesSurvivorSums ==
    (last.op = "liquidate" /\ last.err = "Ok") =>
        LET S == Surviving(last.side, last.key)
        IN  /\ RootAggregates(Book, last.side) = SumBag(S)
            /\ (BagToSet(S) = {} => get_root(Book, last.side) = None)

\* A liquidation that removed some of three inserted positions and left
\* others.
C2_Witness ==
    /\ last.op = "liquidate" /\ last.err = "Ok"
    /\ BagCardinality(positions) = MaxBuild
    /\ BagToSet(Surviving(last.side, last.key)) # {}
    /\ BagToSet(Surviving(last.side, last.key)) # BagToSet(On(last.side))
    /\ get_root(Book, last.side) # None

\* C3: after any sequence of open_position calls on empty sides, repeated
\* keys included, each side's root aggregates are the element-wise sums of
\* all the inserted (collateral, v_coin, v_pc).
C3_RootIsSumOfInserted ==
    Building =>
        \A side \in PositionType : RootAggregates(Book, side) = SumBag(On(side))

\* Three positions inserted, two of them under one key, below an inner root.
C3_Witness ==
    /\ last.op = "open_position" /\ last.err = "Ok"
    /\ BagCardinality(positions) = MaxBuild
    /\ \E p \in BagToSet(positions), q \in BagToSet(positions) :
           /\ p.liquidation_index = q.liquidation_index
           /\ p # q \/ positions[p] > 1
    /\ get_node(Book, get_root(Book, last.side)) = "InnerNode"

\* ------------------------------------------------ open followed by close
\* The leaves of a side as the caller can tell them apart.
LeafRecords(b, side) ==
    { [pt |-> l, liquidation_index |-> Leaf_get_liquidation_index(b, l),
       slot_number |-> Leaf_get_slot(b, l), amounts |-> Leaf_get(b, l)] :
      l \in Leaves(b, get_root(b, side)) }

\* The inner nodes of a side with the leaf l in their subtree.
Ancestors(b, side, l) ==
    { n \in Reach(b, get_root(b, side), Fuel) :
        Tag(b, n) = InnerNode /\ l \in Reach(b, n, Fuel) /\ n # l }

OpenArgs(side, k, amounts) ==
    [liquidation_index |-> k, amounts |-> amounts, position_type |-> side,
     slot |-> slot]

\* The close the caller issues for the position an open has just returned.
CloseOfOpened(a, r) == [a EXCEPT !.slot = Leaf_get_slot(r.book, r.leaf)]

\* C4: from any reachable state, an open_position that succeeds, followed at
\* once by close_position with the same key, side and amounts and the slot
\* number of the returned leaf, succeeds and leaves the side's root
\* aggregates as they were before the open; a side that had no root before
\* has none after.
C4_OpenThenCloseRestoresRoot ==
    \A side \in PositionType, k \in Keys, amounts \in Amounts :
        LET a == OpenArgs(side, k, amounts)
            r1 == open_position(Book, a)
        IN  r1.err = "Ok" =>
            LET r2 == close_position(r1.book, CloseOfOpened(a, r1))
            IN  /\ r2.err = "Ok"
                /\ RootAggregates(r2.book, side) = RootAggregates(Book, side)
                /\ (get_root(Book, side) = None
                        => get_root(r2.book, side) = None)

\* A side holding several leaves where an open makes a new leaf and the
\* close takes it away again; and an empty side where the same happens.
C4_Witness ==
    /\ last.op = "close_position" /\ last.err = "Ok"
    /\ \E side \in PositionType, k \in Keys, amounts \in Amounts :
           LET a == OpenArgs(side, k, amounts)
               r1 == open_position(Book, a)
           IN  /\ get_node(Book, get_root(Book, side)) = "InnerNode"
               /\ r1.err = "Ok"
               /\ r1.leaf \notin Live(Book)
               /\ close_position(r1.book, CloseOfOpened(a, r1)).err = "Ok"
    /\ \E side \in PositionType, k \in Keys, amounts \in Amounts :
           /\ get_root(Book, side) = None
           /\ open_position(Book, OpenArgs(side, k, amounts)).err = "Ok"

\* C5: close_position on a reachable leaf, with collateral and v_coin
\* strictly below the leaf's and v_pc not above it, succeeds, subtracts
\* exactly those amounts from the leaf and from each of its ancestors, and
\* leaves the leaf in place under the same liquidation_index and
\* slot_number, where a later close_position finds it.
C5_PartialCloseSubtractsOnPath ==
    \A side \in PositionType, amounts \in Amounts :
        \A x \in LeafRecords(Book, side) :
            (/\ amounts[1] < x.amounts[1]
             /\ amounts[2] < x.amounts[2]
             /\ amounts[3] <= x.amounts[3]) =>
            LET a == [liquidation_index |-> x.liquidation_index,
                      amounts |-> amounts, position_type |-> side,
                      slot |-> x.slot_number]
                r == close_position(Book, a)
            IN  /\ r.err = "Ok"
                /\ [x EXCEPT !.amounts = Minus3(x.amounts, amounts)]
                       \in LeafRecords(r.book, side)
                /\ \A n \in Ancestors(Book, side, x.pt) :
                       /\ n \in Ancestors(r.book, side, x.pt)
                       /\ InnerNode_get(r.book, n)
                              = Sub3(InnerNode_get(Book, n), amounts)
                /\ close_position(r.book,
                       [a EXCEPT !.amounts = << 0, 0, 0 >>]).err = "Ok"

\* A close has just taken one of two positions merged in a leaf below an
\* inner node: the leaf is still there and holds what the other recorded.
C5_Witness ==
    /\ last.op = "close_position" /\ last.err = "Ok"
    /\ \E x \in LeafRecords(Book, last.side), q \in BagToSet(positions) :
           /\ x.liquidation_index = last.key
           /\ Ancestors(Book, last.side, x.pt) # {}
           /\ q.side = last.side
           /\ q.liquidation_index = x.liquidation_index
           /\ q.slot_number = x.slot_number
           /\ q.amounts = x.amounts

\* The recorded positions lie on one side under keys that differ.
DistinctKeys ==
    \A p \in BagToSet(positions), q \in BagToSet(positions) :
        /\ positions[p] = 1
        /\ p.liquidation_index = q.liquidation_index => p = q

\* C6: after positions with distinct keys were inserted into one side,
\* close_position of any one of them with its full amounts succeeds, lowers
\* the root aggregates by exactly its amounts, removes its leaf, and leaves
\* every other leaf reachable in its slot with its key and fields unchanged.
C6_FullCloseRemovesOnlyItsLeaf ==
    (Building /\ DistinctKeys) =>
        \A p \in BagToSet(positions) :
            LET a == [liquidation_index |-> p.liquidation_index,
                      amounts |-> p.amounts, position_type |-> p.side,
                      slot |-> p.slot_number]
                r == close_position(Book, a)
            IN  /\ r.err = "Ok"
                /\ RootAggregates(r.book, p.side)
                       = Minus3(RootAggregates(Book, p.side), p.amounts)
                /\ \E x \in LeafRecords(Book, p.side) :
                       x.liquidation_index = p.liquidation_index
                /\ LeafRecords(r.book, p.side)
                       = { x \in LeafRecords(Book, p.side) :
                             x.liquidation_index # p.liquidation_index }

\* One of four positions under distinct keys has just been closed.
C6_Witness ==
    /\ last.op = "close_position" /\ last.err = "Ok"
    /\ DistinctKeys
    /\ BagCardinality(positions) = MaxBuild - 1
    /\ \A p \in BagToSet(positions) :
           p.side = last.side /\ p.liquidation_index # last.key
    /\ Cardinality(LeafRecords(Book, last.side)) = MaxBuild - 1

\* ------------------------------------------------ garbage and free lists
\* The slots on the garbage list, from gc_list_hd along PointerToNext.
RECURSIVE GcFrom(_, _, _)
GcFrom(b, pt, fuel) ==
    IF pt = None \/ fuel = 0 \/ ~PtrOk(b, pt) THEN {}
    ELSE {pt} \cup (IF read_byte(b, pt, GN_IsLastToCollect) = 0
                    THEN GcFrom(b, read_u32_le(b, pt, GN_PointerToNext),
                                fuel - 1)
                    ELSE {})
GcList(b) == GcFrom(b, b.gc_list_hd, Fuel)

\* The garbage list together with everything below its inner nodes.
GcSlots(b) == UNION { Reach(b, pt, Fuel) : pt \in GcList(b) }

\* The free list of a page from hd on: its slot indices in order, and
\* whether it is a chain of free slots that ends in a LastFreeSlot.
RECURSIVE FreeFrom(_, _, _)
FreeFrom(p, hd, fuel) ==
    IF hd = None THEN [slots |-> << >>, ok |-> TRUE]
    ELSE IF fuel = 0 \/ hd < 0 \/ SlotOffset(hd) + SLOT_SIZE > Len(p.data)
    THEN [slots |-> << >>, ok |-> FALSE]
    ELSE LET tag == Page_read_byte(p, hd, 0)
         IN  IF tag = LastFreeSlot THEN [slots |-> << hd >>, ok |-> TRUE]
             ELSE IF tag = FreeSlot
             THEN LET rest == FreeFrom(p, Page_read_u32_le(p, hd, 1), fuel - 1)
                  IN  [slots |-> << hd >> \o rest.slots, ok |-> rest.ok]
             ELSE [slots |-> << hd >>, ok |-> FALSE]
FreeList(p) == FreeFrom(p, p.free_slot_list_hd, p.page_size + 1)

Global(i, pointer) == (i - 1) * (2 ^ PAGE_SHIFT) + pointer
FreeSlots(b) ==
    UNION { { Global(i, FreeList(b.pages[i]).slots[j]) :
              j \in 1..Len(FreeList(b.pages[i]).slots) } :
            i \in 1..Len(b.pages) }

\* C7: once the garbage collector has emptied the garbage list, every slot
\* that was ever put on it is on its page's free list (or has been handed
\* out again from there), and an allocate hands out no slot that is still
\* reachable from a root.
C7_CrankedGarbageIsFree ==
    gc_list_hd = None =>
        /\ \A pt \in flagged : pt \in FreeSlots(Book) \cup Live(Book)
        /\ \A slot_type \in SlotTypes :
               LET r == Memory_allocate(Book, slot_type)
               IN  r.err = "Ok" => r.pointer \notin Live(Book)

\* C8: no slot on the garbage list, and no descendant of an inner node on
\* it, is reachable from shorts_root or longs_root.
C8_GarbageIsUnreachable == GcSlots(Book) \cap Live(Book) = {}

\* A retired inner node with its two children is on the garbage list while
\* the book still holds positions.
C8_Witness ==
    /\ \E pt \in GcList(Book) :
           Tag(Book, pt) = InnerNode /\ Cardinality(Reach(Book, pt, Fuel)) >= 3
    /\ Live(Book) # {}

\* C9: each page's free list is a finite chain of distinct slot indices
\* below the page's high-water mark, none of them reachable from a root or
\* on the garbage list.
C9_FreeListWellFormed ==
    \A i \in 1..NumPages :
        LET fl == FreeList(pages[i])
        IN  /\ fl.ok
            /\ \A j \in 1..Len(fl.slots) :
                   /\ \A k \in 1..Len(fl.slots) :
                          fl.slots[j] = fl.slots[k] => j = k
                   /\ fl.slots[j] < pages[i].uninitialized_memory
                   /\ Global(i, fl.slots[j])
                          \notin Live(Book) \cup GcSlots(Book)

\* A page with two slots on its free list while the book holds positions
\* and garbage.
C9_Witness ==
    /\ \E i \in 1..NumPages : Len(FreeList(pages[i]).slots) >= 2
    /\ Live(Book) # {}
    /\ GcList(Book) # {}

\* C10: after any sequence of Page::allocate and Page::free calls on a
\* page, allocate calls that fail with OutOfSpace included,
\* uninitialized_memory is at most page_size.
C10_UninitializedWithinPage == page.uninitialized_memory <= page.page_size

\* ------------------------------------------------------ calls that change nothing
\* A close_position call for key k and slot number s.
CloseArgs(side, k, s, amounts) ==
    [liquidation_index |-> k, amounts |-> amounts, position_type |-> side,
     slot |-> s]

\* C11: close_position on a side without root, or for a key and slot_number
\* that no leaf of the side carries together (the walk leaves the range of
\* an inner node, or ends in a leaf with another key or another
\* slot_number), returns PositionNotFound; and whenever it returns
\* PositionNotFound the book is as it was.
C11_NotFoundLeavesBookUnchanged ==
    \A side \in PositionType :
        Let({ << x.liquidation_index, x.slot_number >> :
                  x \in LeafRecords(Book, side) }, LAMBDA held :
        \A k \in AllKeys, s \in Slots, amounts \in Amounts :
            Let(close_position(Book, CloseArgs(side, k, s, amounts)), LAMBDA r :
                /\ << k, s >> \notin held => r.err = "PositionNotFound"
                /\ r.err = "PositionNotFound" => r.book = Book))

\* A close has just been answered PositionNotFound; one side has no root,
\* the other has an inner root whose range leaves keys out, and a leaf whose
\* key is asked for under another slot_number.
C11_Witness ==
    /\ last.op = "close_position" /\ last.err = "PositionNotFound"
    /\ \E side \in PositionType : get_root(Book, side) = None
    /\ \E side \in PositionType :
           LET root == get_root(Book, side)
           IN  /\ get_node(Book, root) = "InnerNode"
               /\ \E k \in AllKeys :
                      LET mm == get_liquidation_index_min_max(
                                    Book, root, get_critbit(Book, root))
                      IN  /\ k > mm.max \/ k < mm.min
                          /\ close_position(Book,
                                 CloseArgs(side, k, 0, << 1, 1, 2 >>)).err
                                 = "PositionNotFound"
               /\ \E x \in LeafRecords(Book, side), s \in Slots :
                      /\ s # x.slot_number
                      /\ close_position(Book,
                             CloseArgs(side, x.liquidation_index, s,
                                       << 1, 1, 2 >>)).err = "PositionNotFound"

Allocation(b) ==
    [i \in 1..Len(b.pages) |->
        << b.pages[i].uninitialized_memory, b.pages[i].free_slot_list_hd >>]

\* C13: open_position under the liquidation_index of a leaf of the same side
\* succeeds, allocates no slot, returns that leaf, adds the collateral,
\* v_coin and v_pc of the call to it, and leaves its liquidation_index and
\* the slot_number of its first insertion as they are.
C13_EqualKeyMergesIntoLeaf ==
    \A side \in PositionType, amounts \in Amounts :
        \A x \in LeafRecords(Book, side) :
            Let(open_position(Book, OpenArgs(side, x.liquidation_index, amounts)),
                LAMBDA r :
                /\ r.err = "Ok"
                /\ r.leaf = x.pt
                /\ Allocation(r.book) = Allocation(Book)
                /\ Live(r.book) = Live(Book)
                /\ Leaf_get(r.book, x.pt) = Add3(x.amounts, amounts)
                /\ Leaf_get_liquidation_index(r.book, x.pt) = x.liquidation_index
                /\ Leaf_get_slot(r.book, x.pt) = x.slot_number)

\* An open has just merged into a leaf that was inserted at an earlier clock
\* slot, below an inner node: the caller holds two records under the leaf's
\* key and slot_number.
C13_Witness ==
    /\ last.op = "open_position" /\ last.err = "Ok"
    /\ \E x \in LeafRecords(Book, last.side) :
           /\ x.liquidation_index = last.key
           /\ x.slot_number < slot
           /\ Ancestors(Book, last.side, x.pt) # {}
           /\ BagCardinality(
                  [p \in {q \in BagToSet(positions) :
                              /\ q.side = last.side
                              /\ q.liquidation_index = last.key
                              /\ q.slot_number = x.slot_number}
                     |-> positions[p]]) >= 2

\* ------------------------------------------------------------- the allocator
\* The slots handed out by allocate and not freed since: the nodes of the
\* two trees, the garbage with what hangs below it, and the retired inner
\* nodes that the collector has taken off the garbage list.
Held(b) ==
    Live(b) \cup GcSlots(b)
        \cup { pt \in b.flagged : PtrOk(b, pt) /\ Tag(b, pt) = InnerNode }

\* The bytes of all pages outside the slot of pointer.
OutsideSlot(b, pointer) ==
    [i \in 1..Len(b.pages) |->
        IF i = PageIndex(pointer) + 1
        THEN << SubSeq(b.pages[i].data, 1, SlotOffset(PageLocal(pointer))),
                SubSeq(b.pages[i].data,
                       SlotOffset(PageLocal(pointer)) + SLOT_SIZE + 1,
                       Len(b.pages[i].data)) >>
        ELSE b.pages[i].data]

\* C14: allocate returns no slot that was handed out and not freed since,
\* tags the slot it returns with the requested kind, and neither allocate
\* nor the free of a slot changes a byte (tag or payload) of any other slot.
C14_AllocateReturnsUnusedSlot ==
    /\ \A slot_type \in SlotTypes :
           Let(Memory_allocate(Book, slot_type), LAMBDA r :
               r.err = "Ok" =>
                   /\ r.pointer \notin Held(Book)
                   /\ Tag(r.book, r.pointer) = slot_type
                   /\ OutsideSlot(r.book, r.pointer) = OutsideSlot(Book, r.pointer))
    /\ \A pt \in Held(Book) :
           Let(Memory_free(Book, pt), LAMBDA r :
               r.err = "Ok" =>
                   OutsideSlot(r.book, pt) = OutsideSlot(Book, pt))

\* A slot that was freed is the next to be handed out, while other slots
\* hold live nodes and garbage.
C14_Witness ==
    /\ \E i \in 1..NumPages : pages[i].free_slot_list_hd # None
    /\ Live(Book) # {} /\ GcSlots(Book) # {}
    /\ \A slot_type \in SlotTypes : Memory_allocate(Book, slot_type).err = "Ok"

\* The pages with a slot to give: an entry on the free list, or headroom
\* below the slot count.
Spare(b) ==
    { i \in 1..Len(b.pages) :
        \/ b.pages[i].free_slot_list_hd # None
        \/ b.pages[i].uninitialized_memory < b.pages[i].page_size }

\* C15: Memory::allocate returns a slot of the lowest-indexed page that has
\* a free-list entry or headroom, with that page's index above the low 28
\* bits of the pointer (the top 4 bits of a u32) and the slot index below
\* them, and it returns OutOfSpace only when every page has an empty free
\* list and its high-water mark at its slot count.
C15_AllocateTakesFirstSparePage ==
    \A slot_type \in SlotTypes :
        Let(Memory_allocate(Book, slot_type), LAMBDA r :
            /\ Spare(Book) # {} =>
                   /\ r.err = "Ok"
                   /\ PageIndex(r.pointer) + 1 \in Spare(Book)
                   /\ \A i \in Spare(Book) : PageIndex(r.pointer) + 1 <= i
                   /\ r.pointer = (PageIndex(r.pointer)) * (2 ^ 28)
                                      + PageLocal(r.pointer)
                   /\ PageLocal(r.pointer)
                          \in { pages[PageIndex(r.pointer) + 1].free_slot_list_hd,
                                pages[PageIndex(r.pointer) + 1].uninitialized_memory }
                   /\ PageLocal(r.pointer)
                          < pages[PageIndex(r.pointer) + 1].page_size
            /\ r.err = "OutOfSpace" =>
                   \A i \in 1..NumPages :
                       /\ pages[i].free_slot_list_hd = None
                       /\ pages[i].uninitialized_memory = pages[i].page_size)

\* The first page is full and has an empty free list, a later page has
\* room, and allocate has just gone there.
C15_Witness ==
    /\ last.op = "Memory::allocate" /\ last.err = "Ok"
    /\ PageIndex(last.key) >= 1
    /\ 1 \notin Spare(Book)
    /\ Spare(Book) # {}
    /\ \A slot_type \in SlotTypes :
           /\ Memory_allocate(Book, slot_type).err = "Ok"
           /\ PageIndex(Memory_allocate(Book, slot_type).pointer) >= 1

\* ------------------------------------------------------ the garbage collector
\* The garbage list in order, head first.
RECURSIVE GcSeqFrom(_, _, _)
GcSeqFrom(b, pt, fuel) ==
    IF pt = None \/ fuel = 0 \/ ~PtrOk(b, pt) THEN << >>
    ELSE << pt >> \o (IF read_byte(b, pt, GN_IsLastToCollect) = 0
                      THEN GcSeqFrom(b, read_u32_le(b, pt, GN_PointerToNext),
                                     fuel - 1)
                      ELSE << >>)
GcSeq(b) == GcSeqFrom(b, b.gc_list_hd, Fuel)

\* s is the tail of t.
IsSuffix(s, t) ==
    /\ Len(s) <= Len(t)
    /\ SubSeq(t, Len(t) - Len(s) + 1, Len(t)) = s

\* C16: crank_garbage_collector(n) returns the number of entries it took
\* off the garbage list, at most n; it returns 0 exactly when n = 0 or the
\* list was empty; the entries it took are a head part of the list as it
\* was, and the rest of that list is the tail of the list afterwards, in
\* the same order.
C16_CrankRemovesAtMostN ==
    \A n \in 0..MaxIterations :
        Let(crank_garbage_collector(Book, n), LAMBDA r :
            r.err = "Ok" =>
            Let(<< GcSeq(Book), GcSeq(r.book) >>, LAMBDA l :
            LET kept == { i \in 1..Len(l[1]) :
                            \E j \in 1..Len(l[2]) : l[2][j] = l[1][i] }
                taken == Len(l[1]) - Cardinality(kept)
            IN  /\ r.freed_slots <= n
                /\ r.freed_slots = 0 <=> (n = 0 \/ gc_list_hd = None)
                /\ GcSlots(r.book) \subseteq GcSlots(Book)
                /\ Cardinality(GcSlots(Book) \ GcSlots(r.book)) = r.freed_slots
                /\ kept = (taken + 1)..Len(l[1])
                /\ IsSuffix(SubSeq(l[1], taken + 1, Len(l[1])), l[2])))

\* The collector has just stopped at its iteration count with entries left
\* on the list, an inner node among them, and more than one call's worth.
C16_Witness ==
    /\ last.op = "crank_garbage_collector" /\ last.err = "Ok"
    /\ Len(GcSeq(Book)) >= 2
    /\ \E j \in 1..Len(GcSeq(Book)) : Tag(Book, GcSeq(Book)[j]) = InnerNode
    /\ crank_garbage_collector(Book, 1).freed_slots = 1
    /\ Len(GcSeq(crank_garbage_collector(Book, 1).book)) >= 3

\* C17: once the caller does nothing but call crank_garbage_collector, with
\* any iteration counts of at least 1, a call comes that returns 0 and
\* leaves gc_list_hd = None.
C17_CrankingEmptiesTheList ==
    Collecting ~> (/\ last.op = "crank_garbage_collector"
                   /\ last.err = "Ok"
                   /\ last.key = 0
                   /\ gc_list_hd = None)

\* A retired subtree of two inner nodes and three leaves has been collected
\* to the end: the last call returned 0 on an empty list.
C17_Witness ==
    /\ last.op = "crank_garbage_collector" /\ last.err = "Ok"
    /\ last.key = 0
    /\ gc_list_hd = None
    /\ Cardinality({ pt \in flagged : Tag(Book, pt) = InnerNode }) >= 2
    /\ Cardinality(flagged) >= 5

\* C18: the step of crank_garbage_collector that processes the head entry
\* of the garbage list puts that entry's slot on its page's free list,
\* whether it is tagged InnerNode or LeafNode, and pushes both children of
\* an InnerNode entry onto the garbage list.
C18_ProcessedEntryIsFreed ==
    gc_list_hd # None =>
        Let(crank_garbage_collector(Book, 1), LAMBDA r :
            r.err = "Ok" =>
                /\ gc_list_hd \in FreeSlots(r.book)
                /\ Tag(Book, gc_list_hd) = InnerNode =>
                       \A o \in {IN_LeftPointer, IN_RightPointer} :
                           \E j \in 1..Len(GcSeq(r.book)) :
                               GcSeq(r.book)[j] = read_u32_le(Book, gc_list_hd, o))

\* C19: liquidate on a side that has no root, or none of whose leaves is on
\* the losing side of the threshold, returns Ok and leaves the whole book
\* as it was: roots, pages (nodes and free lists) and garbage list.  The
\* only arithmetic that can leave the word on the way is the range maximum
\* of a root whose critbit is the top bit.
C19_NothingToLiquidateLeavesBook ==
    \A side \in PositionType, t \in Thresholds :
        (\A x \in LeafRecords(Book, side) :
             Survives(side, x.liquidation_index, t)) =>
            Let(liquidate(Book, [liquidation_index |-> t, position_type |-> side]),
                LAMBDA r : /\ r.err = "Ok"
                           /\ r.book = Book
                           /\ Trapped(r) =>
                                  /\ get_node(Book, get_root(Book, side)) = "InnerNode"
                                  /\ get_critbit(Book, get_root(Book, side))
                                        = U64_BITS - 1)

\* A liquidate on the shorts side has just returned Ok with the side's root
\* an inner node and nothing retired or freed so far, while the longs side
\* has no root.
C19_Witness ==
    /\ last.op = "liquidate" /\ last.err = "Ok" /\ last.side = Short
    /\ get_node(Book, shorts_root) = "InnerNode"
    /\ longs_root = None
    /\ flagged = {} /\ FreeSlots(Book) = {}
    /\ \E t \in Thresholds :
           /\ \A x \in LeafRecords(Book, Short) :
                  Survives(Short, x.liquidation_index, t)
           /\ t > 0

\* ------------------------------------------------- two sides, one memory
Other(side) == IF side = Short THEN Long ELSE Short

\* The bytes of the slot of pointer: tag and payload.
SlotBytes(b, pointer) ==
    SubSeq(b.pages[PageIndex(pointer) + 1].data,
           SlotOffset(PageLocal(pointer)) + 1,
           SlotOffset(PageLocal(pointer)) + SLOT_SIZE)

\* The root of a side and the bytes of every node reachable from it.
SideImage(b, side) ==
    [root |-> get_root(b, side),
     nodes |-> [pt \in Reach(b, get_root(b, side), Fuel) |-> SlotBytes(b, pt)]]

\* The side has in b the root and the node bytes of the image.
SameSide(b, side, image) ==
    /\ get_root(b, side) = image.root
    /\ \A pt \in DOMAIN image.nodes : SlotBytes(b, pt) = image.nodes[pt]

\* C20: every successful open_position, close_position or liquidate on one
\* side leaves the other side's root pointer and the bytes (tag, key,
\* pointers, aggregates) of every node reachable from it as they were.
C20_OtherSideUntouched ==
    [][\A side \in PositionType :
           (/\ last'.op \in {"open_position", "close_position", "liquidate"}
            /\ last'.side = side
            /\ last'.err = "Ok")
           => SameSide(BookNext, Other(side), SideImage(Book, Other(side)))]_vars

\* A position has just been opened on the longs side, with slots of the
\* memory given back before, in a slot below a node of the shorts side on
\* the same page, and the shorts side has an inner root.
C20_Witness ==
    /\ last.op = "open_position" /\ last.err = "Ok" /\ last.side = Long
    /\ get_node(Book, shorts_root) = "InnerNode"
    /\ longs_root # None
    /\ FreeSlots(Book) # {}
    /\ \E pt \in Reach(Book, shorts_root, Fuel) :
           /\ PageIndex(pt) = PageIndex(longs_root)
           /\ longs_root < pt

\* ------------------------------------------------------ shape of the tries
\* The inner nodes reachable from the root of a side.
Inners(b, side) ==
    { n \in Reach(b, get_root(b, side), Fuel) : Tag(b, n) = InnerNode }

\* The keys of the leaves below the node pt.
KeysBelow(b, pt) == { Leaf_get_liquidation_index(b, l) : l \in Leaves(b, pt) }

\* C21: for every inner node reachable from a root, the keys of the leaves
\* of its subtree lie between its liquidation_index_min and that minimum
\* with the bits at and below critbit set, and the minimum has the bits at
\* and below critbit equal to 0.
C21_LeavesWithinNodeRange ==
    \A side \in PositionType : \A n \in Inners(Book, side) :
        LET critbit == get_critbit(Book, n)
            min == read_u64_le(Book, n, IN_LiquidationIndexMin)
        IN  /\ critbit \in 0..(U64_BITS - 1)
            /\ min % (2 ^ (critbit + 1)) = 0
            /\ \A k \in KeysBelow(Book, n) :
                   min <= k /\ k <= min + (2 ^ (critbit + 1) - 1)

\* An open has just split above an inner node whose range left the key
\* out: the root is an inner node over an inner node with a minimum other
\* than 0.
C21_Witness ==
    /\ last.op = "open_position" /\ last.err = "Ok"
    /\ \E n \in Inners(Book, last.side) :
           /\ n # get_root(Book, last.side)
           /\ read_u64_le(Book, n, IN_LiquidationIndexMin) # 0
           /\ last.key \notin KeysBelow(Book, n)
    /\ get_node(Book, get_root(Book, last.side)) = "InnerNode"

\* C22: for every inner node reachable from a root, the leaves of its left
\* subtree have bit critbit of their key 0, those of its right subtree have
\* it 1, and all its leaves agree on the bits above critbit; an inner child
\* has a smaller critbit, and no two leaves of a side share a key.
C22_CritbitSeparatesSubtrees ==
    \A side \in PositionType :
        /\ \A n \in Inners(Book, side) :
               LET critbit == get_critbit(Book, n)
                   left_pt == read_u32_le(Book, n, IN_LeftPointer)
                   right_pt == read_u32_le(Book, n, IN_RightPointer)
               IN  /\ \A k \in KeysBelow(Book, left_pt) : Bit(k, critbit) = 0
                   /\ \A k \in KeysBelow(Book, right_pt) : Bit(k, critbit) = 1
                   /\ \A k1, k2 \in KeysBelow(Book, n) :
                          k1 \div (2 ^ (critbit + 1)) = k2 \div (2 ^ (critbit + 1))
                   /\ \A c \in {left_pt, right_pt} :
                          Tag(Book, c) = InnerNode => get_critbit(Book, c) < critbit
        /\ Cardinality(KeysBelow(Book, get_root(Book, side)))
              = Cardinality(Leaves(Book, get_root(Book, side)))

\* A side holds three leaves under two inner nodes, the lower one under the
\* left pointer of the root, the last of them just inserted.
C22_Witness ==
    \E side \in PositionType :
        /\ Cardinality(Leaves(Book, get_root(Book, side))) = 3
        /\ Cardinality(Inners(Book, side)) = 2
        /\ read_u32_le(Book, get_root(Book, side), IN_LeftPointer)
              \in Inners(Book, side)
        /\ last.op = "open_position" /\ last.err = "Ok" /\ last.side = side

\* ------------------------------------------------------- typed accesses
\* Pointers into each page up to one slot beyond it, and into a page beyond
\* the last; the field offsets of the two node layouts; the widths of
\* read_byte, read_u32_le and read_u64_le.
AccessPointers ==
    { Global(i, pt) : i \in 1..(NumPages + 1), pt \in 0..PageSize }
AccessOffsets ==
    {0, IN_Critbit, IN_LiquidationIndexMin, IN_LeftPointer, IN_RightPointer,
     IN_Collateral, IN_VCoin, IN_VPc, LF_SlotNumber, LF_VPc}
AccessLengths == {1, 4, 8}

\* The byte range of the access lies inside the buffer of an existing page.
InsideBuffer(b, pointer, offset, length) ==
    /\ PageIndex(pointer) < Len(b.pages)
    /\ SlotOffset(PageLocal(pointer)) + offset + length
          <= Len(b.pages[PageIndex(pointer) + 1].data)

\* C23: a typed read or write through Memory at a pointer and offset whose
\* bytes lie outside the page's buffer ends with the error MemoryError.
C23_OutsideBufferIsMemoryError ==
    \A pointer \in AccessPointers, offset \in AccessOffsets,
       length \in AccessLengths :
        ~InsideBuffer(Book, pointer, offset, length)
            => Memory_access(Book, pointer, offset, length) = "MemoryError"

\* ---------------------------------------------------------- slot layout
\* The fields of the two node layouts as << offset, width >>: the widths are
\* those of the typed reads and writes the accessors use (u8, u32, u64).
InnerFields ==
    { << IN_Critbit, 1 >>, << IN_LiquidationIndexMin, 8 >>,
      << IN_LeftPointer, 4 >>, << IN_RightPointer, 4 >>,
      << IN_Collateral, 8 >>, << IN_VCoin, 8 >>, << IN_VPc, 8 >>,
      << IN_CalculationFlag, 1 >> }
LeafFields ==
    { << LF_LiquidationIndex, 8 >>, << LF_SlotNumber, 8 >>,
      << LF_Collateral, 8 >>, << LF_VCoin, 8 >>, << LF_VPc, 8 >> }
FieldsOf(tag) == IF tag = InnerNode THEN InnerFields ELSE LeafFields

\* Every field of the layout lies behind the tag byte and inside a slot of
\* size bytes, and no two fields share a byte.
FieldsFit(fields, size) ==
    \A f \in fields :
        /\ f[1] >= 1 /\ f[1] + f[2] <= size
        /\ \A g \in fields \ {f} : f[1] + f[2] <= g[1] \/ g[1] + g[2] <= f[1]

\* Writing a field of a node reachable from a root changes no byte outside
\* the node's slot and not its tag.
FieldWritesStayInSlot ==
    \A n \in Live(Book) : \A f \in FieldsOf(Tag(Book, n)) :
        Let(write(Book, n, f[1], [i \in 1..f[2] |-> 255]), LAMBDA b :
            /\ OutsideSlot(b, n) = OutsideSlot(Book, n)
            /\ Tag(b, n) = Tag(Book, n)
            /\ b # Book)

C25_OutOfSpaceLeavesBook ==
    \A side \in PositionType, k \in AllKeys, amounts \in GcAmounts :
        Let(open_position(Book, OpenArgs(side, k, amounts)), LAMBDA r :
            r.err = "OutOfSpace" => r.book = Book)

\* ------------------------------------------------- liquidations that do nothing
\* What both sides' roots hold together after the shorts and then the longs
\* were liquidated at a threshold.
CollateralAfter(b, liquidation_index) ==
    LET shorts == liquidate(b, [liquidation_index |-> liquidation_index,
                                position_type |-> Short]).book
        longs == liquidate(shorts, [liquidation_index |-> liquidation_index,
                                    position_type |-> Long]).book
    IN  RootAggregates(longs, Short)[1] + RootAggregates(longs, Long)[1]

\* C26: process_liquidation ends in Nop exactly when liquidating the shorts
\* and then the longs at the threshold leaves the collateral the two roots
\* hold together as it was, and a call that ends in Nop writes back neither
\* the instance descriptor nor the market state's total.
C26_NopIffNothingLiquidated ==
    \A t \in Thresholds :
        Let(process_liquidation(Book, t), LAMBDA r :
            /\ r.err \in {"Ok", "Nop"}
            /\ r.err = "Nop" <=>
                   CollateralAfter(Book, t) =
                       RootAggregates(Book, Short)[1] + RootAggregates(Book, Long)[1]
            /\ r.err = "Nop" =>
                   /\ r.instance = Instance(Book)
                   /\ r.total_collateral = 0)

\* ------------------------------------------------- recomputing the aggregates
\* The traversal of a side returns what the side's root stores.
TraversalAgrees(b, side) ==
    Let(compute_aggregate_position(b, side), LAMBDA r :
        /\ r.err = "Ok"
        /\ r.total_collateral = RootAggregates(b, side)[1]
        /\ r.total_v_coin = RootAggregates(b, side)[2])

\* C27: in every state of a side, the book as it is and the book after one
\* more accepted open_position at any liquidation_index, the collateral and
\* v_coin totals that compute_aggregate_position returns are the collateral
\* and v_coin stored at the side's root, and 0 for a side without root.
C27_TraversalEqualsRoot ==
    /\ \A side \in PositionType : TraversalAgrees(Book, side)
    /\ \A side \in PositionType, k \in AllKeys, amounts \in GcAmounts :
           Let(open_position(Book, OpenArgs(side, k, amounts)), LAMBDA r :
               r.err = "Ok" => TraversalAgrees(r.book, side))

\* ------------------------------------------------- the cost of a liquidation
\* The book with an empty record of visited nodes attached.
Traced(b) == [visited |-> << >>] @@ b

\* The number of nodes on the longest path from pt down to a leaf.
RECURSIVE Depth(_, _, _)
Depth(b, pt, fuel) ==
    IF pt = None \/ fuel = 0 \/ ~PtrOk(b, pt) THEN 0
    ELSE IF Tag(b, pt) = InnerNode
    THEN LET l == Depth(b, read_u32_le(b, pt, IN_LeftPointer), fuel - 1)
             r == Depth(b, read_u32_le(b, pt, IN_RightPointer), fuel - 1)
         IN  1 + (IF l > r THEN l ELSE r)
    ELSE 1

\* The subtrees a liquidation of b retired as a whole, by their roots, and
\* the nodes strictly inside them.
Excised(b, after) == after.flagged \ b.flagged
InsideExcised(b, after) ==
    UNION { Reach(b, f, Fuel) \ {f} : f \in Excised(b, after) }

\* C28: liquidate comes to an end on every side and at every threshold; the
\* nodes its loops stand on number at most twice the nodes on the side's
\* longest root-to-leaf path, whatever it removes, and none of them lies
\* inside a subtree the call retires.
C28_LiquidateVisitsTwoPaths ==
    \A side \in PositionType, t \in Thresholds :
        Let(liquidate(Traced(Book), [liquidation_index |-> t,
                                     position_type |-> side]), LAMBDA r :
            /\ Len(r.book.visited) <= 2 * Depth(Book, get_root(Book, side), Fuel)
            /\ \A i \in 1..Len(r.book.visited) :
                   r.book.visited[i] \notin InsideExcised(Book, r.book))

\* A liquidation goes down a side twice, two inner nodes deep, and retires a
\* subtree of two leaves without entering it.
C28_Witness ==
    \E side \in PositionType, t \in Thresholds :
        Let(liquidate(Traced(Book), [liquidation_index |-> t,
                                     position_type |-> side]), LAMBDA r :
            /\ r.err = "Ok"
            /\ Len(r.book.visited) >= 4
            /\ \E f \in Excised(Book, r.book) :
                   Cardinality(Leaves(Book, f)) >= 2)

\* ------------------------------------------------- closing a leaf with a parent
\* The inner node of a side that has pt as a child (none for the root), and
\* the other child of mother.
MotherOf(b, side, pt) ==
    { n \in Reach(b, get_root(b, side), Fuel) :
        /\ Tag(b, n) = InnerNode
        /\ pt \in {read_u32_le(b, n, IN_LeftPointer),
                   read_u32_le(b, n, IN_RightPointer)} }
SiblingOf(b, mother, pt) ==
    IF read_u32_le(b, mother, IN_LeftPointer) = pt
    THEN read_u32_le(b, mother, IN_RightPointer)
    ELSE read_u32_le(b, mother, IN_LeftPointer)

\* The closes of a recorded position that take all the collateral of a leaf
\* below an inner node: the record, the leaf and the leaf's mother.
FullCloseCases ==
    { c \in BagToSet(positions) \X Live(Book) \X Live(Book) :
        /\ c[2] \in Leaves(Book, get_root(Book, c[1].side))
        /\ Leaf_get_liquidation_index(Book, c[2]) = c[1].liquidation_index
        /\ Leaf_get_slot(Book, c[2]) = c[1].slot_number
        /\ Leaf_get(Book, c[2])[1] = c[1].amounts[1]
        /\ c[3] \in MotherOf(Book, c[1].side, c[2]) }
CloseOf(p) ==
    close_position(Book, CloseArgs(p.side, p.liquidation_index, p.slot_number,
                                   p.amounts))

\* In after, the sibling of pt stands where mother stood in b: under the
\* grandmother, or as the side's root.
SiblingTakesPlace(b, after, side, pt, mother) ==
    IF MotherOf(b, side, mother) = {}
    THEN get_root(after, side) = SiblingOf(b, mother, pt)
    ELSE \A g \in MotherOf(b, side, mother) :
             /\ get_root(after, side) = get_root(b, side)
             /\ \A off \in {IN_LeftPointer, IN_RightPointer} :
                    read_u32_le(after, g, off) =
                        IF read_u32_le(b, g, off) = mother
                        THEN SiblingOf(b, mother, pt)
                        ELSE read_u32_le(b, g, off)

Followed(b) ==
    ({b.shorts_root, b.longs_root} \ {None})
        \cup UNION { {read_u32_le(b, n, IN_LeftPointer),
                      read_u32_le(b, n, IN_RightPointer)} :
                     n \in {m \in Live(b) : Tag(b, m) = InnerNode} }

\* pt designates a slot that get_node decodes.
IsNode(b, pt) == PtrOk(b, pt) /\ Tag(b, pt) \in {InnerNode, LeafNode}

\* Every entry of the garbage list from pt on is a node, and the list ends.
RECURSIVE GcEntriesAreNodes(_, _, _)
GcEntriesAreNodes(b, pt, fuel) ==
    /\ fuel > 0
    /\ IsNode(b, pt)
    /\ \/ read_byte(b, pt, GN_IsLastToCollect) # 0
       \/ GcEntriesAreNodes(b, read_u32_le(b, pt, GN_PointerToNext), fuel - 1)

\* The head of page p's free list is a slot of the page tagged as free.
FreeHeadIsFree(p) ==
    \/ p.free_slot_list_hd = None
    \/ /\ p.free_slot_list_hd \in 0..(p.uninitialized_memory - 1)
       /\ Page_read_byte(p, p.free_slot_list_hd, 0) \in {FreeSlot, LastFreeSlot}

\* No call on b ends in the panic of a pointer that does not decode.
NoCallPanics(b) ==
    /\ \A side \in PositionType, t \in Thresholds :
           liquidate(b, [liquidation_index |-> t, position_type |-> side]).err
               # "Panic"
    /\ \A n \in 1..MaxIterations : crank_garbage_collector(b, n).err # "Panic"
    /\ \A p \in BagToSet(positions) : CloseOf(p).err # "Panic"
    /\ \A side \in PositionType, amounts \in GcAmounts :
           \A k \in KeysOf(side) :
               open_position(b, OpenArgs(side, k, amounts)).err # "Panic"

\* C30: in every state reached from the empty book, every pointer followed
\* from a root and every garbage-list entry designates a slot tagged
\* InnerNode or LeafNode, the head of every page's free list designates a
\* slot tagged FreeSlot or LastFreeSlot, and no open_position,
\* close_position, liquidate or crank_garbage_collector on the book runs into
\* a pointer that does not decode.
C30_PointersDecode ==
    /\ \A pt \in Followed(Book) : IsNode(Book, pt)
    /\ gc_list_hd # None => GcEntriesAreNodes(Book, gc_list_hd, Fuel)
    /\ \A i \in 1..Len(pages) : FreeHeadIsFree(pages[i])
    /\ NoCallPanics(Book)

\* A liquidation has just left a node under a root, an entry on the garbage
\* list and a slot on a page's free list.
C30_Witness ==
    /\ last.op = "liquidate"
    /\ Live(Book) # {}
    /\ gc_list_hd # None
    /\ \E i \in 1..Len(pages) : pages[i].free_slot_list_hd # None

\* ------------------------------------------------- what a liquidation keeps
\* C31: a liquidate(T, side) that succeeds leaves under the side's root
\* exactly the leaves whose key is on the winning side of T (shorts: key > T,
\* longs: key < T), each in its slot with its liquidation_index, slot_number,
\* collateral, v_coin and v_pc as before, and no leaf on the losing side.
C31_LiquidateKeepsWinners ==
    \A side \in PositionType, t \in Thresholds :
        Let(liquidate(Book, [liquidation_index |-> t, position_type |-> side]),
            LAMBDA r :
            r.err = "Ok" =>
                LeafRecords(r.book, side) =
                    { x \in LeafRecords(Book, side) :
                        Survives(side, x.liquidation_index, t) })

\* A side of three leaves, of which some threshold takes two and keeps one
\* and another takes one and keeps two.
C31_Witness ==
    \E side \in PositionType :
        /\ Cardinality(LeafRecords(Book, side)) = 3
        /\ \E t \in Thresholds :
               Let(liquidate(Book, [liquidation_index |-> t,
                                    position_type |-> side]), LAMBDA r :
                   /\ r.err = "Ok"
                   /\ Cardinality(LeafRecords(r.book, side)) = 1)
        /\ \E t \in Thresholds :
               Let(liquidate(Book, [liquidation_index |-> t,
                                    position_type |-> side]), LAMBDA r :
                   /\ r.err = "Ok"
                   /\ Cardinality(LeafRecords(r.book, side)) = 2)

\* ------------------------------------------------- the traversal's stack
\* The book with an empty record of visited nodes and of the stack's
\* high-water mark attached.
TracedStack(b) == [visited |-> << >>, max_stack |-> 0] @@ b

\* The capacity the traversal's stack is created with, which is the key
\* width in bits.
StackCapacity == U64_BITS

CheckVPc == {0, U64_MAX}
ExistenceCheck(side, k, s, v_pc) ==
    close_position(Book, CloseArgs(side, k, s, << 0, 0, v_pc >>))

\* C33: close_position with collateral 0 and v_coin 0 returns Ok when a leaf
\* with the given liquidation_index and slot_number is reachable from the
\* side's root and PositionNotFound when none is, and leaves the book as it
\* was either way, whatever v_pc it is given.
C33_ZeroCloseOnlyChecks ==
    \A side \in PositionType :
        Let(LeafRecords(Book, side), LAMBDA leaves :
            \A k \in AllKeys, s \in Slots, v_pc \in CheckVPc :
                Let(ExistenceCheck(side, k, s, v_pc), LAMBDA r :
                    /\ r.book = Book
                    /\ r.err = IF \E x \in leaves :
                                      /\ x.liquidation_index = k
                                      /\ x.slot_number = s
                               THEN "Ok" ELSE "PositionNotFound"))

\* A side of several leaves on which the check finds a leaf under its own
\* slot_number and misses it under another one.
C33_Witness ==
    \E side \in PositionType :
        /\ Cardinality(LeafRecords(Book, side)) >= 2
        /\ \E x \in LeafRecords(Book, side), s \in Slots :
               /\ s # x.slot_number
               /\ ExistenceCheck(side, x.liquidation_index, x.slot_number,
                                 U64_MAX).err = "Ok"
               /\ ExistenceCheck(side, x.liquidation_index, s,
                                 U64_MAX).err = "PositionNotFound"

\* ------------------------------------------------- positions stay addressable
\* The existence check of the caller's record p finds its leaf in b.
Addressable(b, p) ==
    close_position(b, CloseArgs(p.side, p.liquidation_index, p.slot_number,
                                << 0, 0, 0 >>)).err = "Ok"

\* The records the step keeps, and the record an accepted open_position adds.
Kept == BagToSet(positions) \cap BagToSet(positions')
Added ==
    { p \in BagToSet(positions') :
        CopiesIn(p, positions') > CopiesIn(p, positions) }

\* C34: a recorded position is addressable when its open_position has
\* returned, and every call after that keeps it addressable: an
\* open_position, a close_position made for another record with that
\* record's amounts, a crank_garbage_collector, and a liquidate whose
\* threshold leaves the position's key on the winning side.
C34_OpenedStaysAddressable ==
    [][/\ \A p \in Added : Addressable(BookNext, p)
       /\ \A p \in Kept :
              (/\ Addressable(Book, p)
               /\ last'.op = "liquidate" =>
                      << p.side, p.liquidation_index >> \notin lost')
                  => Addressable(BookNext, p)]_vars

\* ------------------------------------------------- what flagging writes
\* The pointers of all slots of the pages, and the nodes among them that
\* are not on the garbage list yet.
AllPointers ==
    { Global(i, l) : i \in 1..NumPages, l \in 0..(PageSize - 1) }
Flaggable ==
    { pt \in AllPointers : IsNode(Book, pt) /\ pt \notin GcList(Book) }

\* The offsets inside a slot that a garbage-list entry uses for its link.
LinkOffsets ==
    {GN_IsLastToCollect} \cup (GN_PointerToNext..(GN_PointerToNext + 3))

\* The bytes of the slot of pointer outside the link, by offset.
OutsideLink(b, pointer) ==
    [o \in (0..(SLOT_SIZE - 1)) \ LinkOffsets |-> SlotBytes(b, pointer)[o + 1]]

\* C35: flag_for_gc(p) makes p the head of the garbage list and writes
\* nothing but the IsLastToCollect byte and the PointerToNext field of slot
\* p: the tag, the child pointers and every other byte of the slot, every
\* other slot, the roots and the pages' bookkeeping stay as they were, and a
\* crank that takes p off the list as an inner node flags the two children p
\* had before.
C35_FlagWritesOnlyTheLink ==
    \A pt \in Flaggable :
        Let(flag_for_gc(Book, pt), LAMBDA r :
            /\ r.err = "Ok"
            /\ r.book.gc_list_hd = pt
            /\ OutsideLink(r.book, pt) = OutsideLink(Book, pt)
            /\ Tag(r.book, pt) = Tag(Book, pt)
            /\ read_u32_le(r.book, pt, IN_LeftPointer)
                   = read_u32_le(Book, pt, IN_LeftPointer)
            /\ read_u32_le(r.book, pt, IN_RightPointer)
                   = read_u32_le(Book, pt, IN_RightPointer)
            /\ OutsideSlot(r.book, pt) = OutsideSlot(Book, pt)
            /\ Instance([r.book EXCEPT !.gc_list_hd = gc_list_hd])
                   = Instance(Book)
            /\ Tag(Book, pt) = InnerNode =>
                   Let(crank_garbage_collector(r.book, 1), LAMBDA c :
                       /\ c.err = "Ok"
                       /\ c.book.gc_list_hd = read_u32_le(Book, pt, IN_RightPointer)
                       /\ {read_u32_le(Book, pt, IN_LeftPointer),
                           read_u32_le(Book, pt, IN_RightPointer)}
                              \subseteq c.book.flagged))

\* The garbage list has an entry and there is an inner node that is not on
\* it: flagging that node writes both the byte and the link.
C35_Witness ==
    /\ gc_list_hd # None
    /\ \E pt \in Flaggable :
           /\ Tag(Book, pt) = InnerNode
           /\ flag_for_gc(Book, pt).err = "Ok"
           /\ SlotBytes(flag_for_gc(Book, pt).book, pt) # SlotBytes(Book, pt)

\* ------------------------------------------------- the range of a top-bit node
\* C36: the range maximum of every reachable inner node is computed without
\* leaving the word, also when the node's critbit is the top bit of the key,
\* where it is the all-ones value; no open_position, close_position or
\* liquidate on such a tree ends in the panic of an overflow check.
C36_TopBitRangeDoesNotOverflow ==
    /\ \A side \in PositionType : \A n \in Inners(Book, side) :
           Let(get_liquidation_index_min_max(Book, n, get_critbit(Book, n)),
               LAMBDA mm :
               /\ ~mm.ovf
               /\ get_critbit(Book, n) = U64_BITS - 1 => mm.max = U64_MAX)
    /\ (\A side \in PositionType : \A x \in LeafRecords(Book, side) :
            \A i \in 1..3 : x.amounts[i] \in 1..(2 * MaxCalls))
           => last.err # "Panic"

\* ------------------------------------------------- dropping a liquidated record
\* The user accounts that hold the caller's records in some order, with room
\* for MaxPositions records.
RECURSIVE Orderings(_)
Orderings(B) ==
    IF BagToSet(B) = {} THEN { << >> }
    ELSE UNION { { << p >> \o rest : rest \in Orderings(B (-) SetToBag({p})) } :
                 p \in BagToSet(B) }
UserAccounts ==
    { [number_of_open_positions |-> Len(records),
       active |-> Len(records) # 0,
       data |-> records \o [j \in 1..(MaxPositions - Len(records)) |-> None]] :
      records \in Orderings(positions) }

\* The book answers PositionNotFound for the record at position_index.
Liquidated_at(account, position_index) ==
    /\ position_index < account.number_of_open_positions
    /\ Let(account.data[position_index + 1], LAMBDA p :
           close_position(Book, CloseArgs(p.side, p.liquidation_index,
                                          p.slot_number, p.amounts)).err
               = "PositionNotFound")

\* C37: when the book answers PositionNotFound for the record at an index of
\* the user account, process_close_position returns Ok, the account has one
\* open position less with the last record at the freed index and the other
\* records where they were, and neither the book, the instance descriptor
\* nor the market state is written.
C37_NotFoundDropsTheRecord ==
    \A account \in UserAccounts, position_index \in 0..(MaxPositions - 1) :
        Liquidated_at(account, position_index) =>
            Let(process_close_position(Book, account, position_index), LAMBDA r :
                /\ r.err = "Ok"
                /\ r.account.number_of_open_positions
                       = account.number_of_open_positions - 1
                /\ r.account.active = (account.number_of_open_positions # 1)
                /\ \A j \in 1..(account.number_of_open_positions - 1) :
                       r.account.data[j] =
                           IF j = position_index + 1
                           THEN account.data[account.number_of_open_positions]
                           ELSE account.data[j]
                /\ r.book = Book
                /\ r.instance = Instance(Book)
                /\ ~r.written)

\* A user account of three records whose first is of a liquidated position
\* and whose last is a different record.
C37_Witness ==
    \E account \in UserAccounts :
        /\ account.number_of_open_positions = 3
        /\ account.data[1] # account.data[3]
        /\ Liquidated_at(account, 0)
        /\ process_close_position(Book, account, 0).err = "Ok"

\* ------------------------------------------------- the instance account
\* The instance account holds, after its tag byte, the Borsh image of the
\* Instance and, from byte Instance_LEN on, one PageInfo of PageInfo_LEN
\* bytes per page.  Borsh writes an Option<u32> as the byte 0, or as the byte
\* 1 and the four bytes of the value, so an image's length depends on which
\* fields are set and the bytes behind a shorter image keep what the account
\* held before.  Offsets count the bytes in front, as in the source.
StateObject_Uninitialized == 0
StateObject_MemoryPage == 3
StateObject_Instance == 4
Instance_LEN == 21
PageInfo_LEN == 41
ADDRESS_LEN == 32

SerializeOption(v) == IF v = None THEN << 0 >> ELSE << 1 >> \o ToLeBytes4(v)

\* Reads are [err, value, next]: next is the offset behind what was read.
Read(err, value, next) == [err |-> err, value |-> value, next |-> next]

DeserializeU32(d, o) ==
    IF o + 4 > Len(d) THEN Read("InvalidAccountData", None, o)
    ELSE Read("Ok", FromLeBytes4(d, o), o + 4)

DeserializeOption(d, o) ==
    IF o + 1 > Len(d) THEN Read("InvalidAccountData", None, o)
    ELSE IF d[o + 1] = 0 THEN Read("Ok", None, o + 1)
    ELSE IF d[o + 1] = 1 THEN DeserializeU32(d, o + 1)
    ELSE Read("InvalidAccountData", None, o)

\* An update that leaves the garbage list's head out of the descriptor.
Instance_update_NoGarbage(instance, b, page_infos) ==
    [instance |-> [instance EXCEPT !.shorts_pointer = b.shorts_root,
                                   !.longs_pointer = b.longs_root],
     page_infos |-> [i \in 1..Len(page_infos) |->
        [page_infos[i] EXCEPT
            !.unitialized_memory_index = b.pages[i].uninitialized_memory,
            !.free_slot_list_hd = b.pages[i].free_slot_list_hd]]]

Instance_update(instance, b, page_infos) ==
    [instance |-> [instance EXCEPT !.shorts_pointer = b.shorts_root,
                                   !.longs_pointer = b.longs_root,
                                   !.garbage_pointer = b.gc_list_hd],
     page_infos |-> [i \in 1..Len(page_infos) |->
        [page_infos[i] EXCEPT
            !.unitialized_memory_index = b.pages[i].uninitialized_memory,
            !.free_slot_list_hd = b.pages[i].free_slot_list_hd]]]

Instance_pack_into_slice(instance, dst) ==
    CopyFromSlice([dst EXCEPT ![1] = StateObject_Instance], 1,
                  << instance.version >>
                    \o SerializeOption(instance.shorts_pointer)
                    \o SerializeOption(instance.longs_pointer)
                    \o SerializeOption(instance.garbage_pointer)
                    \o ToLeBytes4(instance.number_of_pages))

Instance_unpack_from_slice(src) ==
    IF src[1] # StateObject_Instance
    THEN [err |-> IF src[1] = 0 THEN "UninitializedAccount"
                  ELSE "InvalidAccountData"]
    ELSE Let(DeserializeOption(src, 2), LAMBDA shorts :
         Let(DeserializeOption(src, shorts.next), LAMBDA longs :
         Let(DeserializeOption(src, longs.next), LAMBDA garbage :
         Let(DeserializeU32(src, garbage.next), LAMBDA number :
             IF \E r \in {shorts, longs, garbage, number} : r.err # "Ok"
             THEN [err |-> "InvalidAccountData"]
             ELSE [err |-> "Ok",
                   instance |-> [version |-> src[2],
                                 shorts_pointer |-> shorts.value,
                                 longs_pointer |-> longs.value,
                                 garbage_pointer |-> garbage.value,
                                 number_of_pages |-> number.value]]))))

PageInfo_pack_into_slice(page_info, dst) ==
    CopyFromSlice(dst, 0,
                  page_info.address
                    \o ToLeBytes4(page_info.unitialized_memory_index)
                    \o SerializeOption(page_info.free_slot_list_hd))

PageInfo_unpack_from_slice(src) ==
    Let(DeserializeU32(src, ADDRESS_LEN), LAMBDA index :
    Let(DeserializeOption(src, index.next), LAMBDA hd :
        IF index.err # "Ok" \/ hd.err # "Ok"
        THEN [err |-> "InvalidAccountData"]
        ELSE [err |-> "Ok",
              page_info |-> [address |-> SubSeq(src, 1, ADDRESS_LEN),
                             unitialized_memory_index |-> index.value,
                             free_slot_list_hd |-> hd.value]]))

\* Writing a slice of the account: the slice is cut out, packed into and put
\* back where it was.
write_instance(instance_account_data, instance) ==
    IF Len(instance_account_data) < Instance_LEN
    THEN [err |-> "InvalidAccountData", data |-> instance_account_data]
    ELSE [err |-> "Ok",
          data |-> CopyFromSlice(instance_account_data, 0,
                       Instance_pack_into_slice(instance,
                           SubSeq(instance_account_data, 1, Instance_LEN)))]

write_page_info(instance_account_data, page_index, page_info) ==
    LET offset == page_index * PageInfo_LEN + Instance_LEN
        offset_end == offset + PageInfo_LEN
    IN  IF Len(instance_account_data) < offset_end
        THEN [err |-> "InvalidAccountData", data |-> instance_account_data]
        ELSE [err |-> "Ok",
              data |-> CopyFromSlice(instance_account_data, offset,
                           PageInfo_pack_into_slice(page_info,
                               SubSeq(instance_account_data, offset + 1,
                                      offset_end)))]

write_instance_and_memory(instance_account_data, page_infos, instance) ==
    LET RECURSIVE write_pages(_, _)
        write_pages(w, page_index) ==
            IF w.err # "Ok" \/ page_index >= Len(page_infos) THEN w
            ELSE write_pages(write_page_info(w.data, page_index,
                                             page_infos[page_index + 1]),
                             page_index + 1)
    IN  write_pages(write_instance(instance_account_data, instance), 0)

parse_instance(instance_account_data) ==
    IF Len(instance_account_data) < Instance_LEN
    THEN [err |-> "InvalidAccountData"]
    ELSE Let(Instance_unpack_from_slice(
                 SubSeq(instance_account_data, 1, Instance_LEN)),
         LAMBDA header :
         IF header.err # "Ok" THEN [err |-> header.err]
         ELSE LET RECURSIVE read_page_info(_, _)
                  read_page_info(infos, offset) ==
                      IF Len(infos) = header.instance.number_of_pages
                      THEN [err |-> "Ok", instance |-> header.instance,
                            page_infos |-> infos]
                      ELSE IF offset + PageInfo_LEN
                                > Len(instance_account_data)
                      THEN [err |-> "InvalidAccountData"]
                      ELSE Let(PageInfo_unpack_from_slice(
                                   SubSeq(instance_account_data, offset + 1,
                                          offset + PageInfo_LEN)),
                           LAMBDA r :
                           IF r.err # "Ok" THEN [err |-> r.err]
                           ELSE read_page_info(Append(infos, r.page_info),
                                     offset + PageInfo_LEN))
              IN  read_page_info(<< >>, Instance_LEN))

\* Page::new over the account that holds the page: account is
\* [key, data].  A page account that was never used gets its tag here.
Page_new(account, page_info) ==
    IF account.data[1] \notin {StateObject_MemoryPage,
                               StateObject_Uninitialized}
    THEN [err |-> "InvalidAccountData"]
    ELSE [err |-> "Ok",
          page |-> [page_size |-> (Len(account.data) - TAG_SIZE)
                                     \div SLOT_SIZE,
                    data |-> [account.data EXCEPT
                                 ![1] = StateObject_MemoryPage],
                    uninitialized_memory |->
                        page_info.unitialized_memory_index,
                    free_slot_list_hd |-> page_info.free_slot_list_hd]]

parse_memory(instance, pages_infos, accounts) ==
    LET RECURSIVE parse_page(_, _)
        parse_page(parsed, i) ==
            IF i > Len(pages_infos)
            THEN [err |-> "Ok", pages |-> parsed,
                  gc_list_hd |-> instance.garbage_pointer]
            ELSE IF i > Len(accounts) THEN [err |-> "NotEnoughAccountKeys"]
            ELSE IF accounts[i].key # pages_infos[i].address
            THEN [err |-> "InvalidArgument"]
            ELSE Let(Page_new(accounts[i], pages_infos[i]), LAMBDA r :
                     IF r.err # "Ok" THEN [err |-> r.err]
                     ELSE parse_page(Append(parsed, r.page), i + 1))
    IN  parse_page(<< >>, 1)

\* What the processors do at their ends, and at their starts.  Persist is
\* the update of the descriptor the call parsed and its writing back; Load
\* parses the account, the memory and builds the book over the page
\* accounts.  The set of slots flagged since a slot was last freed is not
\* part of the program's state and is carried along.
Persist(instance_account_data, instance, page_infos, b) ==
    Let(Instance_update(instance, b, page_infos), LAMBDA u :
        write_instance_and_memory(instance_account_data, u.page_infos,
                                  u.instance))

Load(instance_account_data, accounts, flags) ==
    Let(parse_instance(instance_account_data), LAMBDA i :
        IF i.err # "Ok" THEN [err |-> i.err]
        ELSE Let(parse_memory(i.instance, i.page_infos, accounts),
             LAMBDA memory :
             IF memory.err # "Ok" THEN [err |-> memory.err]
             ELSE [err |-> "Ok",
                   book |-> [pages |-> memory.pages,
                             gc_list_hd |-> memory.gc_list_hd,
                             shorts_root |-> i.instance.shorts_pointer,
                             longs_root |-> i.instance.longs_pointer,
                             flagged |-> flags]]))

\* The accounts of a call.  The pages' accounts have the addresses the
\* descriptor names and hold the pages' buffers; the descriptor a call parsed
\* is whatever an earlier call left, which Instance::update overwrites.
PageAddress(i) == [j \in 1..ADDRESS_LEN |-> i]
PageAccounts(b) ==
    [i \in 1..Len(b.pages) |->
        [key |-> PageAddress(i), data |-> b.pages[i].data]]
ParsedInstance ==
    [version |-> 0, shorts_pointer |-> None, longs_pointer |-> None,
     garbage_pointer |-> None, number_of_pages |-> NumPages]
ParsedPageInfos ==
    [i \in 1..NumPages |->
        [address |-> PageAddress(i), unitialized_memory_index |-> 0,
         free_slot_list_hd |-> None]]

\* What the instance account can hold before the write: any one byte all
\* over, or the longest image there is, every pointer set, which a shorter
\* image leaves the tail of.
StaleFills == {0, 1, 255}
InstanceAccountLen == Instance_LEN + NumPages * PageInfo_LEN
LongestImage ==
    write_instance_and_memory(
        [i \in 1..InstanceAccountLen |-> 0],
        [i \in 1..NumPages |->
            [address |-> PageAddress(i),
             unitialized_memory_index |-> PageSize,
             free_slot_list_hd |-> PageSize - 1]],
        [ParsedInstance EXCEPT !.shorts_pointer = 2 ^ PAGE_SHIFT + 1,
                               !.longs_pointer = 2 ^ PAGE_SHIFT + 2,
                               !.garbage_pointer = 2 ^ PAGE_SHIFT + 3]).data
StaleAccounts ==
    { [i \in 1..InstanceAccountLen |-> fill] : fill \in StaleFills }
        \cup {LongestImage}

\* The book with the tag Page::new leaves in the first byte of every page's
\* account, in front of the slots, and a call's result over that book.
Tagged(b) ==
    [b EXCEPT !.pages = [i \in 1..Len(b.pages) |->
        [b.pages[i] EXCEPT !.data[1] = StateObject_MemoryPage]]]
TaggedRes(r) == [r EXCEPT !.book = Tagged(r.book)]

\* The thresholds that fall on, between and outside the keys of the book.
ReloadThresholds == {0} \cup Keys \cup { k + 1 : k \in Keys }
ReloadAmounts == { << 2, 1, 1 >> }

Reloaded(stale) ==
    Let(Persist(stale, ParsedInstance, ParsedPageInfos, Book), LAMBDA w :
        IF w.err # "Ok" THEN [err |-> w.err]
        ELSE Load(w.data, PageAccounts(Book), flagged))

\* C38: the book a call builds from the instance account the call before
\* wrote, over the same page accounts, has the shorts root, the longs root,
\* the garbage list's head and every page's size, high-water mark and free
\* list head of the book that was written, whatever the instance account
\* held before the write; the page buffers differ at most in the account's
\* tag, and every open, close and crank, and every liquidation at a threshold
\* on, next to or below the keys, gives on the rebuilt book the result it
\* gives on the book in memory.
C38_ReloadGivesTheSameBook ==
    /\ \A stale \in StaleAccounts :
           Let(Reloaded(stale), LAMBDA l :
               /\ l.err = "Ok"
               /\ l.book = Tagged(Book))
    /\ Let(Tagged(Book), LAMBDA b :
           /\ \A side \in PositionType, amounts \in ReloadAmounts :
                  \A k \in KeysOf(side) :
                      open_position(b, OpenArgs(side, k, amounts))
                        = TaggedRes(open_position(Book,
                                        OpenArgs(side, k, amounts)))
           /\ \A p \in BagToSet(positions) :
                  close_position(b, CloseArgs(p.side, p.liquidation_index,
                                              p.slot_number, p.amounts))
                    = TaggedRes(close_position(Book,
                          CloseArgs(p.side, p.liquidation_index,
                                    p.slot_number, p.amounts)))
           /\ \A t \in ReloadThresholds, side \in PositionType :
                  liquidate(b, [liquidation_index |-> t,
                                position_type |-> side])
                    = TaggedRes(liquidate(Book, [liquidation_index |-> t,
                                                 position_type |-> side]))
           /\ \A n \in 1..MaxIterations :
                  crank_garbage_collector(b, n)
                    = TaggedRes(crank_garbage_collector(Book, n)))

\* The shorts have a root and the longs none, the garbage list has a head,
\* one page has a free list and one has none, and the book was written over
\* the longest image and rebuilt.
C38_Witness ==
    /\ shorts_root # None
    /\ longs_root = None
    /\ gc_list_hd # None
    /\ \E i \in 1..NumPages : pages[i].free_slot_list_hd # None
    /\ \E i \in 1..NumPages : pages[i].free_slot_list_hd = None
    /\ Reloaded(LongestImage).err = "Ok"
    /\ Reloaded(LongestImage).book.gc_list_hd = gc_list_hd
====
